---------------------------- MODULE Spec2Model ----------------------------
(***************************************************************************)
(* A model of the Corezoid Python SDK (corezoid/*.py): the operation       *)
(* builders, the bounded OperationBatch, the signed request built by       *)
(* CorezoidClient.send, the exchange made by HTTPClient.post and the       *)
(* signature functions of corezoid/utils.py.                               *)
(*                                                                         *)
(* Representation.  A Python str is a sequence of one-character strings.   *)
(* A Python value is a tagged record [t |-> tag, v |-> payload]:           *)
(*   "str" (sequence of characters), "int" (a natural number), "bool",     *)
(*   "none", "list" (sequence of values) and "dict" (sequence of items     *)
(*   [k |-> key, v |-> value] in insertion order, keys pairwise distinct   *)
(*   as Python objects: the int 1 and the str "1" are different keys).     *)
(***************************************************************************)
EXTENDS Integers, Sequences, FiniteSets, TLC

VARIABLES
    operations,      \* OperationBatch.operations (batch.py:25)
    max_batch_size,  \* OperationBatch.max_batch_size (batch.py:26)
    constructed,     \* history: the max_batch_size argument of the constructor
    addCalls,        \* history: add calls since construction or the last clear
    config,          \* CorezoidClient.config (client.py:105-108)
    pc,              \* "idle", or "posting" while send is inside session.post
    call,            \* the latest API call: its name, arguments and outcome
    wire,            \* what the latest send handed to the transport
    attempts,        \* POST attempts the session made for the latest send
    resp,            \* what the latest attempt of the transport produced
    sig,             \* the latest call of generate_signature/verify_signature
    held,            \* the list a caller keeps from get_operations (batch.py:158)
    threads          \* the position of each thread inside OperationBatch.add

vars == <<operations, max_batch_size, constructed, addCalls, config, pc, call,
          wire, attempts, resp, sig, held, threads>>

batchVars == <<operations, max_batch_size, constructed, addCalls>>
callerVars == <<held, threads>>
sendVars == <<pc, wire, attempts, resp>>

----------------------------------------------------------------------------
(* Bounds of the model *)

\* largest capacity a batch is constructed with
MaxCap == 2
\* largest config.max_retries
MaxRetries == 1

----------------------------------------------------------------------------
(* Python values *)

PStr(s) == [t |-> "str", v |-> s]
PInt(n) == [t |-> "int", v |-> n]
PBool(b) == [t |-> "bool", v |-> b]
PNone == [t |-> "none", v |-> 0]
PList(xs) == [t |-> "list", v |-> xs]
PDict(items) == [t |-> "dict", v |-> items]
Item(key, value) == [v |-> value, k |-> key]

Digits == <<"0", "1", "2", "3", "4", "5", "6", "7", "8", "9">>

RECURSIVE IntToStr(_)
\* str(n) for a natural number n: its decimal digits
IntToStr(n) ==
    IF n < 10 THEN <<Digits[n + 1]>>
    ELSE IntToStr(n \div 10) \o <<Digits[(n % 10) + 1]>>

\* str(x) for a str or an int
PyStr(x) == IF x.t = "int" THEN IntToStr(x.v) ELSE x.v

\* d.get(key): the value stored under a str key, PNone when absent
RECURSIVE DictGetFrom(_, _, _)
DictGetFrom(items, key, i) ==
    IF i > Len(items) THEN PNone
    ELSE IF items[i].k = PStr(key) THEN items[i].v
    ELSE DictGetFrom(items, key, i + 1)

DictGet(d, key) == DictGetFrom(d.v, key, 1)

\* key in d
DictHas(d, key) == \E i \in 1..Len(d.v) : d.v[i].k = PStr(key)

\* d[key] = value: replaces the value in place when the key is present,
\* appends the item otherwise (a dict keeps the position of the first insertion)
DictSet(items, key, value) ==
    IF \E i \in 1..Len(items) : items[i].k = key
    THEN [i \in 1..Len(items) |->
            IF items[i].k = key THEN Item(key, value) ELSE items[i]]
    ELSE Append(items, Item(key, value))

----------------------------------------------------------------------------
(* utils.to_json: json.dumps(data, separators=(',', ':')) *)

\* the body of a JSON string literal: '"' and '\' are escaped
RECURSIVE EscapeFrom(_, _)
EscapeFrom(s, i) ==
    IF i > Len(s) THEN <<>>
    ELSE (IF s[i] = "\"" THEN <<"\\", "\"">>
          ELSE IF s[i] = "\\" THEN <<"\\", "\\">>
          ELSE <<s[i]>>) \o EscapeFrom(s, i + 1)

JsonString(s) == <<"\"">> \o EscapeFrom(s, 1) \o <<"\"">>

\* json.dumps renders a key that is not a str through its JSON scalar form
JsonKey(key) ==
    CASE key.t = "str" -> JsonString(key.v)
      [] key.t = "int" -> JsonString(IntToStr(key.v))
      [] key.t = "bool" -> JsonString(IF key.v THEN <<"t", "r", "u", "e">>
                                               ELSE <<"f", "a", "l", "s", "e">>)
      [] OTHER -> JsonString(<<"n", "u", "l", "l">>)

RECURSIVE Dumps(_), DumpsItems(_, _), DumpsElems(_, _)
\* the compact encoder: no whitespace after ',' or ':'
Dumps(x) ==
    CASE x.t = "str" -> JsonString(x.v)
      [] x.t = "int" -> IntToStr(x.v)
      [] x.t = "bool" -> IF x.v THEN <<"t", "r", "u", "e">>
                                ELSE <<"f", "a", "l", "s", "e">>
      [] x.t = "none" -> <<"n", "u", "l", "l">>
      [] x.t = "list" -> <<"[">> \o DumpsElems(x.v, 1) \o <<"]">>
      [] OTHER -> <<"{">> \o DumpsItems(x.v, 1) \o <<"}">>

DumpsItems(items, i) ==
    IF i > Len(items) THEN <<>>
    ELSE (IF i > 1 THEN <<",">> ELSE <<>>)
         \o JsonKey(items[i].k) \o <<":">> \o Dumps(items[i].v)
         \o DumpsItems(items, i + 1)

DumpsElems(xs, i) ==
    IF i > Len(xs) THEN <<>>
    ELSE (IF i > 1 THEN <<",">> ELSE <<>>) \o Dumps(xs[i])
         \o DumpsElems(xs, i + 1)

to_json(data) == Dumps(data)

----------------------------------------------------------------------------
(* utils.from_json: json.loads(data).  The decoder returns                  *)
(* [ok, v, i]: whether a value was read, the value, and the index after it. *)
(* Numbers of the model are natural numbers; whitespace is the space.       *)

DigitSet == {Digits[i] : i \in 1..Len(Digits)}
DigitVal == [c \in DigitSet |-> (CHOOSE i \in 1..Len(Digits) : Digits[i] = c) - 1]

ParseFail == [v |-> PNone, i |-> 0, ok |-> FALSE]
ParseOk(value, next) == [v |-> value, i |-> next, ok |-> TRUE]

RECURSIVE SkipWs(_, _)
SkipWs(s, i) == IF i <= Len(s) /\ s[i] = " " THEN SkipWs(s, i + 1) ELSE i

\* whether the characters of word stand at index i of s
Looking(s, i, word) ==
    /\ i + Len(word) - 1 <= Len(s)
    /\ SubSeq(s, i, i + Len(word) - 1) = word

RECURSIVE ParseStr(_, _, _)
\* i is the index after the opening quote
ParseStr(s, i, acc) ==
    IF i > Len(s) THEN ParseFail
    ELSE IF s[i] = "\"" THEN ParseOk(acc, i + 1)
    ELSE IF s[i] = "\\"
         THEN IF i + 1 <= Len(s) /\ s[i + 1] \in {"\"", "\\", "/"}
              THEN ParseStr(s, i + 2, Append(acc, s[i + 1]))
              ELSE ParseFail
    ELSE ParseStr(s, i + 1, Append(acc, s[i]))

RECURSIVE ParseDigits(_, _, _)
ParseDigits(s, i, n) ==
    IF i <= Len(s) /\ s[i] \in DigitSet
    THEN ParseDigits(s, i + 1, 10 * n + DigitVal[s[i]])
    ELSE ParseOk(PInt(n), i)

RECURSIVE ParseValue(_, _), ParseMembers(_, _, _), ParseElems(_, _, _)
ParseValue(s, i0) ==
    LET i == SkipWs(s, i0) IN
    IF i > Len(s) THEN ParseFail
    ELSE IF s[i] = "{"
         THEN LET j == SkipWs(s, i + 1) IN
              IF j <= Len(s) /\ s[j] = "}" THEN ParseOk(PDict(<<>>), j + 1)
              ELSE ParseMembers(s, j, <<>>)
    ELSE IF s[i] = "["
         THEN LET j == SkipWs(s, i + 1) IN
              IF j <= Len(s) /\ s[j] = "]" THEN ParseOk(PList(<<>>), j + 1)
              ELSE ParseElems(s, j, <<>>)
    ELSE IF s[i] = "\""
         THEN LET r == ParseStr(s, i + 1, <<>>) IN
              IF r.ok THEN ParseOk(PStr(r.v), r.i) ELSE ParseFail
    ELSE IF s[i] = "0" THEN ParseOk(PInt(0), i + 1)
    ELSE IF s[i] \in DigitSet THEN ParseDigits(s, i, 0)
    ELSE IF Looking(s, i, <<"t", "r", "u", "e">>) THEN ParseOk(PBool(TRUE), i + 4)
    ELSE IF Looking(s, i, <<"f", "a", "l", "s", "e">>) THEN ParseOk(PBool(FALSE), i + 5)
    ELSE IF Looking(s, i, <<"n", "u", "l", "l">>) THEN ParseOk(PNone, i + 4)
    ELSE ParseFail

\* i is the index of the opening quote of the next key; a key met again
\* replaces the value stored for it (the last pair wins)
ParseMembers(s, i, items) ==
    IF i > Len(s) \/ s[i] /= "\"" THEN ParseFail
    ELSE LET key == ParseStr(s, i + 1, <<>>) IN
         IF ~key.ok THEN ParseFail
         ELSE LET c == SkipWs(s, key.i) IN
              IF c > Len(s) \/ s[c] /= ":" THEN ParseFail
              ELSE LET val == ParseValue(s, c + 1) IN
                   IF ~val.ok THEN ParseFail
                   ELSE LET e == SkipWs(s, val.i)
                            now == DictSet(items, PStr(key.v), val.v)
                        IN IF e > Len(s) THEN ParseFail
                           ELSE IF s[e] = "}" THEN ParseOk(PDict(now), e + 1)
                           ELSE IF s[e] = ","
                                THEN ParseMembers(s, SkipWs(s, e + 1), now)
                           ELSE ParseFail

ParseElems(s, i, xs) ==
    LET val == ParseValue(s, i) IN
    IF ~val.ok THEN ParseFail
    ELSE LET e == SkipWs(s, val.i)
             now == Append(xs, val.v)
         IN IF e > Len(s) THEN ParseFail
            ELSE IF s[e] = "]" THEN ParseOk(PList(now), e + 1)
            ELSE IF s[e] = "," THEN ParseElems(s, e + 1, now)
            ELSE ParseFail

\* json.loads(s): [ok |-> FALSE] stands for json.JSONDecodeError
Loads(s) ==
    LET r == ParseValue(s, 1) IN
    IF r.ok /\ SkipWs(s, r.i) > Len(s) THEN r ELSE ParseFail

\* utils.from_json on a text that decodes (send passes it its own to_json)
from_json(data) == Loads(data).v

----------------------------------------------------------------------------
(* utils.generate_signature / verify_signature.                            *)
(* HMAC-SHA256 is abstracted as a keyed digest of the same shape: a         *)
(* deterministic function of the key bytes and the message bytes that       *)
(* returns DigestLen lowercase hexadecimal characters.                      *)

HexDigits == <<"0", "1", "2", "3", "4", "5", "6", "7", "8", "9",
               "a", "b", "c", "d", "e", "f">>

\* the characters of the model, in code order; the last is not ASCII
Alphabet == Digits \o
    <<"a", "b", "c", "d", "e", "f", "g", "h", "i", "j", "k", "l", "m", "n",
      "o", "p", "q", "r", "s", "t", "u", "v", "w", "x", "y", "z",
      "A", "B", "C", "D", "E", "F", "G", "H", "I", "J", "K", "L", "M", "N",
      "O", "P", "Q", "R", "S", "T", "U", "V", "W", "X", "Y", "Z",
      "{", "}", "[", "]", ":", ",", "\"", "\\", "/", "-", "_", " ", "<", ">", ".",
      "é">>
CharSet == {Alphabet[i] : i \in 1..Len(Alphabet)}
CharCode == [c \in CharSet |-> CHOOSE i \in 1..Len(Alphabet) : Alphabet[i] = c]
NonAscii == {"é"}

\* length of hashlib.sha256().hexdigest()
DigestLen == 64
DigestMod == 32749

RECURSIVE PowMod(_)
\* 31^n modulo DigestMod
PowMod(n) ==
    IF n = 0 THEN 1
    ELSE LET h == PowMod(n \div 2)
         IN (((h * h) % DigestMod) * (IF n % 2 = 1 THEN 31 ELSE 1)) % DigestMod

RECURSIVE Absorb(_, _, _)
\* the polynomial hash of s[lo..hi], by halves
Absorb(s, lo, hi) ==
    IF lo > hi THEN 0
    ELSE IF lo = hi THEN CharCode[s[lo]]
    ELSE LET mid == (lo + hi) \div 2
         IN (Absorb(s, lo, mid) * PowMod(hi - mid) + Absorb(s, mid + 1, hi))
            % DigestMod

\* hmac.new(key, message, hashlib.sha256).hexdigest()
HmacHex(key, message) ==
    LET h == (Absorb(key, 1, Len(key)) * 257
              + Absorb(message, 1, Len(message)) * 17 + Len(message)) % DigestMod
    IN [i \in 1..DigestLen |->
          HexDigits[(((h + i) * (2 * i + 1) + (h \div (i + 1))) % 16) + 1]]

\* generate_signature that signs the timestamp, a separator and the content
GenerateSignatureWithBoundary(api_secret, timestamp, content) ==
    LET message == timestamp \o <<".">> \o content
    IN HmacHex(api_secret, message)

\* utils.generate_signature
generate_signature(api_secret, timestamp, content) ==
    LET message == timestamp \o content
    IN HmacHex(api_secret, message)

\* hmac.compare_digest on two str: TypeError unless both are ASCII
compare_digest(a, b) ==
    IF \E i \in 1..Len(a) : a[i] \in NonAscii
    THEN [exc |-> "TypeError", ret |-> FALSE]
    ELSE IF \E i \in 1..Len(b) : b[i] \in NonAscii
    THEN [exc |-> "TypeError", ret |-> FALSE]
    ELSE [exc |-> "none", ret |-> (a = b)]

verify_signature(signature, api_secret, timestamp, content) ==
    LET expected_signature == generate_signature(api_secret, timestamp, content)
    IN compare_digest(signature, expected_signature)

----------------------------------------------------------------------------
(* operations.RequestOperation: the request operation builders *)

K_type == <<"t", "y", "p", "e">>
K_conv_id == <<"c", "o", "n", "v", "_", "i", "d">>
K_obj == <<"o", "b", "j">>
K_ref == <<"r", "e", "f">>
K_obj_id == <<"o", "b", "j", "_", "i", "d">>
K_data == <<"d", "a", "t", "a">>

\* create that stores conv_id as given, without str()
CreateKeepsConvId(conv_id, ref, data) ==
    PDict(<<Item(PStr(K_type), PStr(<<"c", "r", "e", "a", "t", "e">>)),
            Item(PStr(K_conv_id), conv_id),
            Item(PStr(K_obj), PStr(<<"t", "a", "s", "k">>)),
            Item(PStr(K_ref), ref),
            Item(PStr(K_data), data)>>)

create(conv_id, ref, data) ==
    PDict(<<Item(PStr(K_type), PStr(<<"c", "r", "e", "a", "t", "e">>)),
            Item(PStr(K_conv_id), PStr(PyStr(conv_id))),
            Item(PStr(K_obj), PStr(<<"t", "a", "s", "k">>)),
            Item(PStr(K_ref), ref),
            Item(PStr(K_data), data)>>)

modify_ref(conv_id, ref, data) ==
    PDict(<<Item(PStr(K_type), PStr(<<"m", "o", "d", "i", "f", "y">>)),
            Item(PStr(K_conv_id), PStr(PyStr(conv_id))),
            Item(PStr(K_obj), PStr(<<"t", "a", "s", "k">>)),
            Item(PStr(K_ref), ref),
            Item(PStr(K_data), data)>>)

modify_id(conv_id, obj_id, data) ==
    PDict(<<Item(PStr(K_type), PStr(<<"m", "o", "d", "i", "f", "y">>)),
            Item(PStr(K_conv_id), PStr(PyStr(conv_id))),
            Item(PStr(K_obj), PStr(<<"t", "a", "s", "k">>)),
            Item(PStr(K_obj_id), obj_id),
            Item(PStr(K_data), data)>>)

get(conv_id, ref) ==
    PDict(<<Item(PStr(K_type), PStr(<<"g", "e", "t">>)),
            Item(PStr(K_conv_id), PStr(PyStr(conv_id))),
            Item(PStr(K_obj), PStr(<<"t", "a", "s", "k">>)),
            Item(PStr(K_ref), ref)>>)

get_by_id(conv_id, obj_id) ==
    PDict(<<Item(PStr(K_type), PStr(<<"g", "e", "t">>)),
            Item(PStr(K_conv_id), PStr(PyStr(conv_id))),
            Item(PStr(K_obj), PStr(<<"t", "a", "s", "k">>)),
            Item(PStr(K_obj_id), obj_id)>>)

\* bool(x) of a value: None, 0, False and the empty str, list and dict are false
Truthy(x) ==
    CASE x.t = "none" -> FALSE
      [] x.t = "bool" -> x.v
      [] x.t = "int" -> x.v /= 0
      [] OTHER -> x.v /= <<>>

K_proc == <<"p", "r", "o", "c">>
K_error_message == <<"e", "r", "r", "o", "r", "_", "m", "e", "s", "s", "a", "g", "e">>
K_error_code == <<"e", "r", "r", "o", "r", "_", "c", "o", "d", "e">>

\* ok that stores data whatever it is
OkAlwaysData(conv_id, ref, data) ==
    PDict(<<Item(PStr(K_obj), PStr(<<"t", "a", "s", "k">>)),
            Item(PStr(K_proc), PStr(<<"o", "k">>)),
            Item(PStr(K_conv_id), PStr(PyStr(conv_id))),
            Item(PStr(K_ref), ref),
            Item(PStr(K_data), data)>>)

\* ResponseOperation.ok
ok(conv_id, ref, data) ==
    LET operation == <<Item(PStr(K_obj), PStr(<<"t", "a", "s", "k">>)),
                       Item(PStr(K_proc), PStr(<<"o", "k">>)),
                       Item(PStr(K_conv_id), PStr(PyStr(conv_id))),
                       Item(PStr(K_ref), ref)>>
    IN PDict(IF Truthy(data)
             THEN DictSet(operation, PStr(K_data), data)
             ELSE operation)

\* error that stores every error_code that was supplied, an empty one too
\* (if error_code is not None)
ErrorKeepsSuppliedCode(conv_id, ref, error_message, error_code) ==
    LET operation == <<Item(PStr(K_obj), PStr(<<"t", "a", "s", "k">>)),
                       Item(PStr(K_proc), PStr(<<"e", "r", "r", "o", "r">>)),
                       Item(PStr(K_conv_id), PStr(PyStr(conv_id))),
                       Item(PStr(K_ref), ref),
                       Item(PStr(K_error_message), error_message)>>
    IN PDict(IF error_code /= PNone
             THEN DictSet(operation, PStr(K_error_code), error_code)
             ELSE operation)

\* ResponseOperation.error
error(conv_id, ref, error_message, error_code) ==
    LET operation == <<Item(PStr(K_obj), PStr(<<"t", "a", "s", "k">>)),
                       Item(PStr(K_proc), PStr(<<"e", "r", "r", "o", "r">>)),
                       Item(PStr(K_conv_id), PStr(PyStr(conv_id))),
                       Item(PStr(K_ref), ref),
                       Item(PStr(K_error_message), error_message)>>
    IN PDict(IF Truthy(error_code)
             THEN DictSet(operation, PStr(K_error_code), error_code)
             ELSE operation)

----------------------------------------------------------------------------
(* The inputs the callers of the model draw from *)

\* capacities a batch is constructed with
Capacities == 0..MaxCap

\* conveyor ids, given as an int (the builders store str(conv_id); SendLists
\* gives one as a str)
ConvIds == {PInt(42)}
Refs == {PStr(<<"a">>)}
ObjIds == {PStr(<<"7">>)}
\* task data: {"k": "v"}
Data1 == PDict(<<Item(PStr(<<"k">>), PStr(<<"v">>))>>)
\* task data with an int key and the str key of the same spelling: {1: "x", "1": "y"}
DataMixedKeys == PDict(<<Item(PInt(1), PStr(<<"x">>)), Item(PStr(<<"1">>), PStr(<<"y">>))>>)
Datas == {Data1}

\* readings of time.time(), in half seconds: 9.5 s and 10.0 s
Times == {19, 20}
\* values of uuid.uuid4().hex[:8]
UuidHex8 == {<<"0", "f", "3", "a", "9", "c", "1", "e">>}

\* operation lists passed to send directly
SendLists ==
    { <<>>,
      <<create(PStr(<<"4", "2">>), PStr(<<"b">>), DataMixedKeys)>> }

\* operations passed to add directly
RawOps == {get_by_id(PInt(42), PStr(<<"7">>))}

ApiSecret == <<"S">>
ApiLogin == <<"L">>
ApiUrl == <<"h", "t", "t", "p", "s", ":", "/", "/", "a", "p", "i", ".", "c", "o", "r", "e", "z", "o", "i", "d", ".", "c", "o", "m", "/", "a", "p", "i", "/", "2", "/", "j", "s", "o", "n">>

----------------------------------------------------------------------------
(* The record of the latest call and of what it handed to the transport *)

\* name: the method; exc: "none", "pending" (send is inside session.post) or the
\* exception raised; ret: the value returned; ops: the operations argument of
\* send; now: the reading of time.time() the call took (0: none);
\* err: the response attribute of a raised APIError; full: whether the batch
\* was full when a call on the batch began
Outcome(name, exc, ret, ops, now, err, full) ==
    [now |-> now, exc |-> exc, ret |-> ret, name |-> name, ops |-> ops,
     err |-> err, full |-> full]

Returned(name, ret, full) == Outcome(name, "none", ret, <<>>, 0, <<>>, full)
Raised(name, exc) == Outcome(name, exc, PNone, <<>>, 0, <<>>, FALSE)

NoWire == [url |-> <<>>, body |-> <<>>, headers |-> <<>>, signed |-> <<>>]
NoResp == [kind |-> "none", status |-> 0, text |-> <<>>]
NoSig == [api_secret |-> <<>>, timestamp |-> <<>>, content |-> <<>>,
          exc |-> "none", ret |-> FALSE, signature |-> <<>>, fn |-> "none",
          digest |-> <<>>]

\* the list object a caller holds: its elements, whether it is the object
\* batch.operations refers to, and whether the caller holds one at all
NoHeld == [ops |-> <<>>, alias |-> FALSE, taken |-> FALSE]

Threads == {1, 2}
\* a thread outside add (pc "idle") or between the capacity check of add and
\* its append (pc "checked", with the operation it is about to append);
\* used: whether the thread has called add
NoThreads == [t \in Threads |-> [pc |-> "idle", operation |-> PNone, used |-> FALSE]]

\* a call that does not reach the transport leaves nothing on the wire
NoExchange ==
    /\ pc' = "idle"
    /\ wire' = NoWire
    /\ attempts' = 0
    /\ resp' = NoResp

----------------------------------------------------------------------------
(* batch.OperationBatch *)

\* utils.current_timestamp: str(int(time.time())); a reading is in half seconds
current_timestamp(now) == IntToStr(now \div 2)

is_full(ops, max) == Len(ops) >= max

is_empty(ops) == Len(ops) = 0
size(ops) == Len(ops)
get_operations(ops) == ops

\* add with the comparison of its capacity check off by one
AddOffByOne(ops, max, operation) ==
    IF Len(ops) > max
    THEN [exc |-> "ValueError", ops |-> ops]
    ELSE [exc |-> "none", ops |-> Append(ops, operation)]

\* add that makes room by dropping the oldest operation before it raises
AddEvictsOnReject(ops, max, operation) ==
    IF Len(ops) >= max
    THEN [exc |-> "ValueError", ops |-> IF ops = <<>> THEN ops ELSE Tail(ops)]
    ELSE [exc |-> "none", ops |-> Append(ops, operation)]

\* add that refuses an operation whose ref is the ref of a stored operation
AddRejectsDuplicateRef(ops, max, operation) ==
    IF Len(ops) >= max
    THEN [exc |-> "ValueError", ops |-> ops]
    ELSE IF /\ DictHas(operation, <<"r", "e", "f">>)
            /\ \E i \in 1..Len(ops) :
                  /\ DictHas(ops[i], <<"r", "e", "f">>)
                  /\ DictGet(ops[i], <<"r", "e", "f">>) = DictGet(operation, <<"r", "e", "f">>)
    THEN [exc |-> "ValueError", ops |-> ops]
    ELSE [exc |-> "none", ops |-> Append(ops, operation)]

\* OperationBatch.add: the exception raised and the operations afterwards
add(ops, max, operation) ==
    IF Len(ops) >= max
    THEN [exc |-> "ValueError", ops |-> ops]
    ELSE [exc |-> "none", ops |-> Append(ops, operation)]

\* the history counter of add calls: it stops at max_batch_size + 1
CountAdd(n, max) == IF n > max THEN n ELSE n + 1

\* the reference add_create generates when none is given (batch.py:59)
GeneratedRef(now, hex8) ==
    PStr(<<"t", "a", "s", "k", "-">> \o IntToStr(now \div 2) \o <<"-">> \o hex8)

\* an adder: builds nothing itself, calls add and returns ret when add returns
Adder(name, operation, ret, now) ==
    /\ pc = "idle"
    /\ LET r == add(operations, max_batch_size, operation) IN
         /\ operations' = r.ops
         /\ call' = Outcome(name, r.exc, IF r.exc = "none" THEN ret ELSE PNone,
                            <<>>, now, <<>>, is_full(operations, max_batch_size))
         /\ held' = IF held.alias THEN [held EXCEPT !.ops = r.ops] ELSE held
    /\ addCalls' = CountAdd(addCalls, max_batch_size)
    /\ NoExchange
    /\ UNCHANGED <<max_batch_size, constructed, config, threads, sig>>

Call_add(operation) == Adder("add", operation, PNone, 0)

\* add_create that returns a generated reference whatever the caller gave,
\* while the operation carries the caller's
CallAddCreateReturnsGenerated(conv_id, data, ref, now, hex8) ==
    LET used == IF ref = PNone THEN GeneratedRef(now, hex8) ELSE ref
    IN Adder("add_create", create(conv_id, used, data), GeneratedRef(now, hex8),
             IF ref = PNone THEN now ELSE 0)

Call_add_create(conv_id, data, ref, now, hex8) ==
    LET used == IF ref = PNone THEN GeneratedRef(now, hex8) ELSE ref
    IN Adder("add_create", create(conv_id, used, data), used,
             IF ref = PNone THEN now ELSE 0)

Call_add_modify_ref(conv_id, ref, data) ==
    Adder("add_modify_ref", modify_ref(conv_id, ref, data), PNone, 0)

Call_add_modify_id(conv_id, obj_id, data) ==
    Adder("add_modify_id", modify_id(conv_id, obj_id, data), PNone, 0)

Call_add_get(conv_id, ref) ==
    Adder("add_get", get(conv_id, ref), PNone, 0)

Call_add_get_by_id(conv_id, obj_id) ==
    Adder("add_get_by_id", get_by_id(conv_id, obj_id), PNone, 0)

\* clear that leaves the operations in place
ClearKeepsOperations ==
    /\ pc = "idle"
    /\ operations' = operations
    /\ addCalls' = 0
    /\ call' = Returned("clear", PNone, is_full(operations, max_batch_size))
    /\ NoExchange
    /\ UNCHANGED <<max_batch_size, constructed, config, callerVars, sig>>

\* OperationBatch.clear binds operations to a new list (batch.py:121): a
\* list the caller holds is the batch's list no longer
Call_clear ==
    /\ pc = "idle"
    /\ operations' = <<>>
    /\ addCalls' = 0
    /\ held' = [held EXCEPT !.alias = FALSE]
    /\ call' = Returned("clear", PNone, is_full(operations, max_batch_size))
    /\ NoExchange
    /\ UNCHANGED <<max_batch_size, constructed, config, threads, sig>>

\* a query: returns a value and changes nothing in the batch
Query(name, ret) ==
    /\ pc = "idle"
    /\ call' = Returned(name, ret, is_full(operations, max_batch_size))
    /\ NoExchange
    /\ UNCHANGED <<batchVars, config, callerVars, sig>>

Call_is_empty == Query("is_empty", PBool(is_empty(operations)))
Call_is_full == Query("is_full", PBool(is_full(operations, max_batch_size)))
Call_size == Query("size", PInt(size(operations)))
\* get_operations by a caller that does not keep the list
Call_get_operations == Query("get_operations", PList(get_operations(operations)))

\* get_operations by a caller that keeps what it returns: self.operations
\* itself (batch.py:158), not a copy
Call_keep_operations ==
    /\ pc = "idle"
    /\ held' = [ops |-> get_operations(operations), alias |-> TRUE, taken |-> TRUE]
    /\ call' = Returned("get_operations", PList(get_operations(operations)),
                        is_full(operations, max_batch_size))
    /\ NoExchange
    /\ UNCHANGED <<batchVars, config, threads, sig>>

\* the caller appends to the list it holds (list.append): when that list is
\* the batch's own, the batch has the element too
Caller_append(operation) ==
    /\ pc = "idle"
    /\ held.taken
    /\ Len(held.ops) <= MaxCap
    /\ held' = [held EXCEPT !.ops = Append(@, operation)]
    /\ operations' = IF held.alias THEN Append(held.ops, operation) ELSE operations
    /\ call' = Returned("list.append", PNone, is_full(operations, max_batch_size))
    /\ NoExchange
    /\ UNCHANGED <<max_batch_size, constructed, addCalls, config, threads, sig>>

\* CorezoidClient.create_batch / OperationBatch.__init__: the caller drops the
\* batch it held and goes on with the new one
Call_create_batch(n) ==
    /\ pc = "idle"
    /\ operations' = <<>>
    /\ max_batch_size' = n
    /\ constructed' = n
    /\ addCalls' = 0
    /\ held' = [held EXCEPT !.alias = FALSE]
    /\ call' = Returned("create_batch", PNone, FALSE)
    /\ NoExchange
    /\ UNCHANGED <<config, threads, sig>>

----------------------------------------------------------------------------
(* client.CorezoidResponse *)

CorezoidResponse(response_data) ==
    [data |-> response_data,
     ops |-> IF DictHas(response_data, <<"o", "p", "s">>)
             THEN DictGet(response_data, <<"o", "p", "s">>) ELSE PList(<<>>),
     request_proc |-> DictGet(response_data, <<"r", "e", "q", "u", "e", "s", "t", "_", "p", "r", "o", "c">>)]

\* is_success that takes every request_proc but "error" for a success
IsSuccessUnlessError(response) == response.request_proc /= PStr(<<"e", "r", "r", "o", "r">>)

\* CorezoidResponse.is_success
is_success(response) == response.request_proc = PStr(<<"o", "k">>)

\* CorezoidResponse.get_error
get_error(response) ==
    IF is_success(response) THEN PNone
    ELSE DictGet(response.data, <<"e", "r", "r", "o", "r", "_", "m", "e", "s", "s", "a", "g", "e">>)

\* CorezoidResponse.get_operation_results
get_operation_results(response) == response.ops

\* the loop of get_operation_result from element i of the ops on
RECURSIVE FirstWithRef(_, _, _)
FirstWithRef(xs, i, ref) ==
    IF i > Len(xs) THEN PNone
    ELSE IF DictGet(xs[i], <<"r", "e", "f">>) = ref THEN xs[i]
    ELSE FirstWithRef(xs, i + 1, ref)

\* get_operation_result that keeps looking after a match: the last match wins
RECURSIVE LastWithRef(_, _, _)
LastWithRef(xs, i, ref) ==
    IF i < 1 THEN PNone
    ELSE IF DictGet(xs[i], <<"r", "e", "f">>) = ref THEN xs[i]
    ELSE LastWithRef(xs, i - 1, ref)

GetOperationResultLast(response, ref) ==
    LastWithRef(response.ops.v, Len(response.ops.v), ref)

\* get_operation_result that reads a missing ref as the empty string
\* (op.get('ref', '') in place of op.get('ref'))
RECURSIVE FirstWithRefOrEmpty(_, _, _)
FirstWithRefOrEmpty(xs, i, ref) ==
    IF i > Len(xs) THEN PNone
    ELSE IF (IF DictHas(xs[i], <<"r", "e", "f">>) THEN DictGet(xs[i], <<"r", "e", "f">>)
             ELSE PStr(<<>>)) = ref
    THEN xs[i]
    ELSE FirstWithRefOrEmpty(xs, i + 1, ref)

GetOperationResultDefaultRef(response, ref) ==
    FirstWithRefOrEmpty(response.ops.v, 1, ref)

\* CorezoidResponse.get_operation_result
get_operation_result(response, ref) == FirstWithRef(response.ops.v, 1, ref)

----------------------------------------------------------------------------
(* client.CorezoidClient.send and http.HTTPClient.post *)

\* CorezoidClient._prepare_content
prepare_content(ops) ==
    LET request == PDict(<<Item(PStr(<<"o", "p", "s">>), PList(ops))>>)
    IN to_json(request)

\* the names of the headers send builds (client.py:141-146)
HeaderNames ==
    {"Content-Type", "X-API-Login", "X-API-Signature", "X-API-Timestamp"}

\* auth_headers with the timestamp and the content passed to
\* generate_signature in each other's place
AuthHeadersSwapped(cfg, timestamp, content) ==
    LET signature == generate_signature(cfg.api_secret, content, timestamp)
    IN [h \in HeaderNames |->
          CASE h = "Content-Type" -> <<"a", "p", "p", "l", "i", "c", "a", "t", "i", "o", "n", "/", "j", "s", "o", "n">>
            [] h = "X-API-Login" -> cfg.api_login
            [] h = "X-API-Signature" -> signature
            [] OTHER -> timestamp]

\* the headers send builds (client.py:139-146)
auth_headers(cfg, timestamp, content) ==
    LET signature == generate_signature(cfg.api_secret, timestamp, content)
    IN [h \in HeaderNames |->
          CASE h = "Content-Type" -> <<"a", "p", "p", "l", "i", "c", "a", "t", "i", "o", "n", "/", "j", "s", "o", "n">>
            [] h = "X-API-Login" -> cfg.api_login
            [] h = "X-API-Signature" -> signature
            [] OTHER -> timestamp]

\* HTTPClient.post up to session.post: the body is to_json of the data passed
post_request(url, data, headers) ==
    [url |-> url, body |-> to_json(data), headers |-> headers]

\* send_request without the check of the empty list
SendRequestNoCheck(ops, cfg, now) ==
    LET timestamp == current_timestamp(now)
        content == prepare_content(ops)
        headers == auth_headers(cfg, timestamp, content)
        request == post_request(cfg.api_url, from_json(content), headers)
    IN [wire |-> [url |-> request.url, body |-> request.body,
                  headers |-> request.headers, signed |-> content],
        exc |-> "pending"]

\* send_request that sends no more operations than the largest capacity
SendRequestCapped(ops, cfg, now) ==
    IF ops = <<>>
    THEN [wire |-> NoWire, exc |-> "ValidationError"]
    ELSE LET timestamp == current_timestamp(now)
             content == prepare_content(SubSeq(ops, 1, IF Len(ops) > MaxCap THEN MaxCap ELSE Len(ops)))
             headers == auth_headers(cfg, timestamp, content)
             request == post_request(cfg.api_url, from_json(content), headers)
         IN [wire |-> [url |-> request.url, body |-> request.body,
                       headers |-> request.headers, signed |-> content],
             exc |-> "pending"]

\* send up to the call of session.post: the exception of the empty list, or the
\* request on the wire together with the content the signature was made over
send_request(ops, cfg, now) ==
    IF ops = <<>>
    THEN [wire |-> NoWire, exc |-> "ValidationError"]
    ELSE LET timestamp == current_timestamp(now)
             content == prepare_content(ops)
             headers == auth_headers(cfg, timestamp, content)
             request == post_request(cfg.api_url, from_json(content), headers)
         IN [wire |-> [url |-> request.url, body |-> request.body,
                       headers |-> request.headers, signed |-> content],
             exc |-> "pending"]

\* the client configurations of the model (config.py:38-46 with valid credentials)
Configs ==
    {[api_secret |-> ApiSecret, api_login |-> ApiLogin, api_url |-> ApiUrl,
      timeout |-> 30, max_retries |-> r] : r \in {0, MaxRetries}}

\* every operation the adders of the model can store
AllOps ==
    RawOps
    \cup {create(c, r, d) : c \in ConvIds, r \in Refs, d \in Datas}
    \cup {create(c, GeneratedRef(now, h), d) :
            c \in ConvIds, now \in Times, h \in UuidHex8, d \in Datas}
    \cup {modify_ref(c, r, d) : c \in ConvIds, r \in Refs, d \in Datas}
    \cup {modify_id(c, o, d) : c \in ConvIds, o \in ObjIds, d \in Datas}
    \cup {get(c, r) : c \in ConvIds, r \in Refs}
    \cup {get_by_id(c, o) : c \in ConvIds, o \in ObjIds}

\* the operation lists send is called with: the direct ones and every content
\* of a batch within its capacity
OpLists == SendLists \cup UNION {[1..n -> AllOps] : n \in 0..MaxCap}
SendArgs == OpLists \X Configs \X Times

\* send_request, tabulated once over the arguments of the model (@@ makes the
\* function an explicit table, so that a step looks the request up), by clock
\* reading, then configuration, then operation list
SendTable ==
    [now \in Times |->
        [cfg \in Configs |->
            [ops \in OpLists |-> send_request(ops, cfg, now)] @@ <<>>] @@ <<>>] @@ <<>>

\* the operation upload_schema builds (client.py:177-183)
upload_schema_operation(folder_id, schema, async_mode) ==
    PDict(<<Item(PStr(K_type), PStr(<<"c", "r", "e", "a", "t", "e">>)),
            Item(PStr(K_obj), PStr(<<"o", "b", "j", "_", "s", "c", "h", "e", "m", "e">>)),
            Item(PStr(<<"f", "o", "l", "d", "e", "r", "_", "i", "d">>), PStr(PyStr(folder_id))),
            Item(PStr(<<"s", "c", "h", "e", "m", "e">>), schema),
            Item(PStr(<<"a", "s", "y", "n", "c">>), PStr(IF async_mode THEN <<"t", "r", "u", "e">> ELSE <<"f", "a", "l", "s", "e">>))>>)

FolderIds == {PInt(5), PStr(<<"f", "1">>)}
Schemas == {PStr(<<"{", "}">>)}
HelperConvIds == {PInt(42), PStr(<<"c", "1">>)}

\* the one-operation lists the convenience helpers hand to send
HelperLists ==
    {<<upload_schema_operation(f, sc, a)>> : f \in FolderIds, sc \in Schemas, a \in BOOLEAN}
    \cup {<<create(c, r, d)>> : c \in HelperConvIds, r \in Refs, d \in Datas}
    \cup {<<create(c, GeneratedRef(now, h), d)>> :
            c \in HelperConvIds, now \in Times, h \in UuidHex8, d \in Datas}
    \cup {<<modify_ref(c, r, d)>> : c \in HelperConvIds, r \in Refs, d \in Datas}
    \cup {<<get(c, r)>> : c \in HelperConvIds, r \in Refs}
HelperArgs == HelperLists \X Configs \X Times

\* lists of one more and two more operations than the largest capacity
LongLists ==
    {[i \in 1..n |-> IF i % 2 = 1 THEN get_by_id(PInt(42), PStr(<<"7">>))
                                  ELSE get(PInt(42), PStr(<<"a">>))] :
        n \in {MaxCap + 1, MaxCap + 2}}

LongArgs == LongLists \X Configs \X Times

\* send_request, tabulated over the arguments the helpers call send with
HelperTable == [x \in HelperArgs |-> send_request(x[1], x[2], x[3])] @@ <<>>
\* and over the long lists
LongTable == [x \in LongArgs |-> send_request(x[1], x[2], x[3])] @@ <<>>

send_request_of(ops, cfg, now) ==
    IF <<ops, cfg, now>> \in SendArgs
    THEN SendTable[now][cfg][ops]
    ELSE IF <<ops, cfg, now>> \in HelperArgs
    THEN HelperTable[<<ops, cfg, now>>]
    ELSE IF <<ops, cfg, now>> \in LongArgs
    THEN LongTable[<<ops, cfg, now>>]
    ELSE send_request(ops, cfg, now)

Sender(name, ops, now) ==
    /\ pc = "idle"
    /\ LET r == send_request_of(ops, config, now) IN
         /\ wire' = r.wire
         /\ pc' = IF r.exc = "pending" THEN "posting" ELSE "idle"
         /\ call' = Outcome(name, r.exc, PNone, ops,
                            IF r.exc = "pending" THEN now ELSE 0, <<>>, FALSE)
    /\ attempts' = 0
    /\ resp' = NoResp
    /\ UNCHANGED <<batchVars, config, callerVars, sig>>

Call_send(ops, now) == Sender("send", ops, now)

\* send_batch that hands the operations to send in the opposite order
SendBatchReversed(now) ==
    IF is_empty(operations)
    THEN /\ pc = "idle"
         /\ call' = Raised("send_batch", "ValidationError")
         /\ NoExchange
         /\ UNCHANGED <<batchVars, config, callerVars, sig>>
    ELSE Sender("send_batch",
                [i \in 1..Len(operations) |-> operations[Len(operations) + 1 - i]],
                now)

\* send_batch that takes the operations out of the batch it sends
SendBatchTakesOperations(now) ==
    IF is_empty(operations)
    THEN /\ pc = "idle"
         /\ call' = Raised("send_batch", "ValidationError")
         /\ NoExchange
         /\ UNCHANGED <<batchVars, config, callerVars, sig>>
    ELSE /\ pc = "idle"
         /\ LET r == send_request_of(get_operations(operations), config, now) IN
              /\ wire' = r.wire
              /\ pc' = "posting"
              /\ call' = Outcome("send_batch", r.exc, PNone, operations, now, <<>>, FALSE)
         /\ attempts' = 0
         /\ resp' = NoResp
         /\ operations' = <<>>
         /\ UNCHANGED <<max_batch_size, constructed, addCalls, config, callerVars, sig>>

\* CorezoidClient.send_batch
Call_send_batch(now) ==
    IF is_empty(operations)
    THEN /\ pc = "idle"
         /\ call' = Raised("send_batch", "ValidationError")
         /\ NoExchange
         /\ UNCHANGED <<batchVars, config, callerVars, sig>>
    ELSE Sender("send_batch", get_operations(operations), now)

\* What one POST attempt of the session can end in: the connection is not made
\* (refused, connect timeout), the exchange breaks after the request was sent
\* (read timeout, reset), or a response arrives.
ConnectFail == [kind |-> "connect_fail", status |-> 0, text |-> <<>>]
ReadFail == [kind |-> "read_fail", status |-> 0, text |-> <<>>]
Http(status, text) == [kind |-> "http", status |-> status, text |-> text]

BodyOk ==
    to_json(PDict(<<Item(PStr(<<"r", "e", "q", "u", "e", "s", "t", "_", "p", "r", "o", "c">>), PStr(<<"o", "k">>)),
                    Item(PStr(<<"o", "p", "s">>),
                         PList(<<PDict(<<Item(PStr(<<"r", "e", "f">>), PStr(<<"a">>)),
                                         Item(PStr(<<"p", "r", "o", "c">>), PStr(<<"o", "k">>))>>)>>))>>))
BodyError ==
    to_json(PDict(<<Item(PStr(<<"r", "e", "q", "u", "e", "s", "t", "_", "p", "r", "o", "c">>), PStr(<<"e", "r", "r", "o", "r">>)),
                    Item(PStr(<<"e", "r", "r", "o", "r", "_", "m", "e", "s", "s", "a", "g", "e">>), PStr(<<"b", "a", "d">>))>>))
BodyHtml == <<"<", "h", "t", "m", "l", ">">>
\* bodies that json.loads rejects
BadBodies == {BodyHtml}

Outcomes ==
    {ConnectFail, ReadFail,
     Http(200, BodyOk), Http(200, BodyError), Http(200, BodyHtml),
     Http(404, BodyError), Http(500, BodyHtml)}

\* the HTTPAdapter mounted with max_retries (http.py:30): a failed connection
\* is tried again while retries are left; a POST that was sent is not
\* retries_left with one retry too many
RetriesOneTooMany(made, max_retries) == made <= max_retries

retries_left(made, max_retries) == made < max_retries

\* response.raise_for_status() raises HTTPError for 4xx and 5xx
raise_for_status(status) == 400 <= status /\ status < 600

\* post_result without the inner handler of the decode error, which then
\* reaches the handler of RequestException
PostResultNoInnerHandler(o) ==
    IF o.kind /= "http" \/ raise_for_status(o.status)
    THEN [exc |-> "ConnectionError", ret |-> PNone, err |-> <<>>]
    ELSE LET r == Loads(o.text) IN
         IF r.ok
         THEN [exc |-> "none", ret |-> r.v, err |-> <<>>]
         ELSE [exc |-> "ConnectionError", ret |-> PNone, err |-> <<>>]

\* HTTPClient.post from the end of session.post on (http.py:56-77): every
\* requests.exceptions.RequestException becomes ConnectionError
post_result(o) ==
    IF o.kind /= "http" \/ raise_for_status(o.status)
    THEN [exc |-> "ConnectionError", ret |-> PNone, err |-> <<>>]
    ELSE LET r == Loads(o.text) IN
         IF r.ok
         THEN [exc |-> "none", ret |-> r.v, err |-> <<>>]
         ELSE [exc |-> "APIError", ret |-> PNone, err |-> o.text]

\* attempt_result that posts again when the response reports a failure
AttemptResultRetriesFailure(o, made, max_retries) ==
    IF o.kind = "connect_fail" /\ retries_left(made, max_retries)
    THEN [pc |-> "posting", exc |-> "pending", ret |-> PNone, err |-> <<>>]
    ELSE LET r == post_result(o)
         IN IF r.exc = "none" /\ ~is_success(CorezoidResponse(r.ret))
               /\ made < max_retries
            THEN [pc |-> "posting", exc |-> "pending", ret |-> PNone, err |-> <<>>]
            ELSE [pc |-> "idle", exc |-> r.exc, ret |-> r.ret, err |-> r.err]

\* What follows one POST attempt (made attempts were made before it): the
\* adapter tries again, or post ends and with it send, which returns the
\* CorezoidResponse of the data or lets the exception through (client.py:150-164)
attempt_result(o, made, max_retries) ==
    IF o.kind = "connect_fail" /\ retries_left(made, max_retries)
    THEN [pc |-> "posting", exc |-> "pending", ret |-> PNone, err |-> <<>>]
    ELSE LET r == post_result(o)
         IN [pc |-> "idle", exc |-> r.exc, ret |-> r.ret, err |-> r.err]

TransportAttempt(o) ==
    /\ pc = "posting"
    /\ attempts' = attempts + 1
    /\ resp' = o
    /\ LET r == attempt_result(o, attempts, config.max_retries) IN
         /\ pc' = r.pc
         /\ call' = [call EXCEPT !.exc = r.exc, !.ret = r.ret, !.err = r.err]
    /\ UNCHANGED <<batchVars, config, callerVars, wire, sig>>

----------------------------------------------------------------------------
(* The specification of the client and its batch *)

Init ==
    /\ operations = <<>>
    /\ max_batch_size \in Capacities
    /\ constructed = max_batch_size
    /\ addCalls = 0
    /\ config \in Configs
    /\ held = NoHeld
    /\ threads = NoThreads
    /\ pc = "idle"
    /\ call = Returned("init", PNone, FALSE)
    /\ wire = NoWire
    /\ attempts = 0
    /\ resp = NoResp
    /\ sig = NoSig

Next ==
    \/ \E op \in RawOps : Call_add(op)
    \/ \E c \in ConvIds, d \in Datas, r \in Refs \cup {PNone}, now \in Times,
          hex8 \in UuidHex8 : Call_add_create(c, d, r, now, hex8)
    \/ \E c \in ConvIds, r \in Refs, d \in Datas : Call_add_modify_ref(c, r, d)
    \/ \E c \in ConvIds, o \in ObjIds, d \in Datas : Call_add_modify_id(c, o, d)
    \/ \E c \in ConvIds, r \in Refs : Call_add_get(c, r)
    \/ \E c \in ConvIds, o \in ObjIds : Call_add_get_by_id(c, o)
    \/ Call_clear
    \/ Call_is_empty
    \/ Call_is_full
    \/ Call_size
    \/ Call_get_operations
    \/ \E n \in Capacities : Call_create_batch(n)
    \/ \E ops \in SendLists, now \in Times : Call_send(ops, now)
    \/ \E now \in Times : Call_send_batch(now)
    \/ \E o \in Outcomes : TransportAttempt(o)

Spec == Init /\ [][Next]_vars

\* session.post blocks the caller until the attempt ends: an attempt that can
\* be made is made
FairSpec == Spec /\ WF_vars(\E o \in Outcomes : TransportAttempt(o))

----------------------------------------------------------------------------
(* The specification of the signature functions: a caller applies           *)
(* generate_signature and verify_signature to arguments of its choice.      *)

SigSecrets == {<<"S">>, <<"K", "2">>}
SigTimestamps == {<<"1">>, <<"1", "0">>, <<"9">>}
SigContents == {<<"{", "}">>, <<"0", "{", "}">>, <<"{", "\"", "o", "p", "s", "\"", ":", "[", "]", "}">>}

\* strings presented as the signature: the signature of the arguments, strings
\* one edit away from it, the signature under another secret, and strings that
\* are no hexadecimal digest at all
SigCandidates(good, other) ==
    {good, other,
     [good EXCEPT ![1] = IF good[1] = "0" THEN "1" ELSE "0"],
     [good EXCEPT ![Len(good)] = "X"],
     SubSeq(good, 1, Len(good) - 1),
     good \o <<"0">>,
     <<>>,
     <<"i", "n", "v", "a", "l", "i", "d", "-", "s", "i", "g", "n", "a", "t", "u", "r", "e">>,
     <<"é">>,
     [good EXCEPT ![1] = "é"]}

Call_generate_signature(api_secret, timestamp, content) ==
    /\ sig' = [api_secret |-> api_secret, timestamp |-> timestamp,
               content |-> content, exc |-> "none", ret |-> FALSE,
               signature |-> <<>>, fn |-> "generate",
               digest |-> generate_signature(api_secret, timestamp, content)]
    /\ UNCHANGED <<batchVars, config, callerVars, call, sendVars>>

Call_verify_signature(signature, api_secret, timestamp, content) ==
    /\ LET r == verify_signature(signature, api_secret, timestamp, content) IN
         sig' = [api_secret |-> api_secret, timestamp |-> timestamp,
                 content |-> content, exc |-> r.exc, ret |-> r.ret,
                 signature |-> signature, fn |-> "verify", digest |-> <<>>]
    /\ UNCHANGED <<batchVars, config, callerVars, call, sendVars>>

SigInit ==
    /\ operations = <<>>
    /\ max_batch_size = MaxCap
    /\ constructed = MaxCap
    /\ addCalls = 0
    /\ config \in {c \in Configs : c.max_retries = 0}
    /\ held = NoHeld
    /\ threads = NoThreads
    /\ pc = "idle"
    /\ call = Returned("init", PNone, FALSE)
    /\ wire = NoWire
    /\ attempts = 0
    /\ resp = NoResp
    /\ sig = NoSig

SigNext ==
    \/ \E k \in SigSecrets, t \in SigTimestamps, c \in SigContents :
          Call_generate_signature(k, t, c)
    \/ \E k \in SigSecrets, t \in SigTimestamps, c \in SigContents :
          \E s \in SigCandidates(generate_signature(k, t, c),
                                 generate_signature(<<"o", "t", "h", "e", "r">>, t, c)) :
             Call_verify_signature(s, k, t, c)

SigSpec == SigInit /\ [][SigNext]_vars

----------------------------------------------------------------------------
(* The specification of the response object: a caller wraps a parsed        *)
(* response body in CorezoidResponse and asks it one question.              *)

\* the record of the application of a function that is no method of the
\* client or the batch: its name, its arguments and its outcome
Applied(name, args, exc, ret) ==
    [exc |-> exc, ret |-> ret, name |-> name, args |-> args]

\* values of request_proc in a response body (PNone: the field is absent)
RespProcs == {PNone, PStr(<<"o", "k">>), PStr(<<"e", "r", "r", "o", "r">>), PStr(<<"O", "K">>)}
\* values of error_message (PNone: the field is absent)
RespMessages == {PNone, PStr(<<"b", "o", "o", "m">>)}

OpResult(ref, proc) ==
    PDict(<<Item(PStr(<<"r", "e", "f">>), PStr(ref)), Item(PStr(<<"p", "r", "o", "c">>), PStr(proc))>>)
OpResultNoRef == PDict(<<Item(PStr(<<"p", "r", "o", "c">>), PStr(<<"o", "k">>))>>)

\* values of ops (PNone: the field is absent): no result, results of distinct
\* refs in both orders, two results of the same ref, a result without a ref
RespOps ==
    {PNone,
     PList(<<>>),
     PList(<<OpResult(<<"a">>, <<"o", "k">>)>>),
     PList(<<OpResult(<<"a">>, <<"o", "k">>), OpResult(<<"b">>, <<"o", "k">>)>>),
     PList(<<OpResult(<<"b">>, <<"o", "k">>), OpResult(<<"a">>, <<"o", "k">>)>>),
     PList(<<OpResult(<<"a">>, <<"o", "k">>), OpResult(<<"a">>, <<"e", "r", "r", "o", "r">>)>>),
     PList(<<OpResultNoRef, OpResult(<<"a">>, <<"e", "r", "r", "o", "r">>)>>)}

Field(key, value) == IF value = PNone THEN <<>> ELSE <<Item(PStr(key), value)>>

\* the parsed body with the fields that are present
ResponseData(proc, message, ops) ==
    PDict(Field(<<"r", "e", "q", "u", "e", "s", "t", "_", "p", "r", "o", "c">>, proc) \o Field(<<"e", "r", "r", "o", "r", "_", "m", "e", "s", "s", "a", "g", "e">>, message)
          \o Field(<<"o", "p", "s">>, ops))

ResponseDatas ==
    {ResponseData(p, m, o) : p \in RespProcs, m \in RespMessages, o \in RespOps}

\* refs asked for
AskedRefs == {PStr(<<"a">>), PStr(<<"b">>), PStr(<<"z">>), PStr(<<>>)}

Call_is_success(d) ==
    /\ call' = Applied("is_success", <<d>>, "none",
                       PBool(is_success(CorezoidResponse(d))))
    /\ UNCHANGED <<batchVars, config, callerVars, sendVars, sig>>

Call_get_error(d) ==
    /\ call' = Applied("get_error", <<d>>, "none", get_error(CorezoidResponse(d)))
    /\ UNCHANGED <<batchVars, config, callerVars, sendVars, sig>>

Call_get_operation_results(d) ==
    /\ call' = Applied("get_operation_results", <<d>>, "none",
                       get_operation_results(CorezoidResponse(d)))
    /\ UNCHANGED <<batchVars, config, callerVars, sendVars, sig>>

Call_get_operation_result(d, ref) ==
    /\ call' = Applied("get_operation_result", <<d, ref>>, "none",
                       get_operation_result(CorezoidResponse(d), ref))
    /\ UNCHANGED <<batchVars, config, callerVars, sendVars, sig>>

RespInit == SigInit

RespNext ==
    \/ \E d \in ResponseDatas : Call_is_success(d)
    \/ \E d \in ResponseDatas : Call_get_error(d)
    \/ \E d \in ResponseDatas : Call_get_operation_results(d)
    \/ \E d \in ResponseDatas, ref \in AskedRefs : Call_get_operation_result(d, ref)

RespSpec == RespInit /\ [][RespNext]_vars

----------------------------------------------------------------------------
(* The specification of the operation builders: a caller applies a builder  *)
(* of RequestOperation or ResponseOperation to arguments of its choice.     *)

\* conveyor ids as ints and as strs, one of them in both forms
BuildConvIds == {PInt(42), PStr(<<"4", "2">>), PInt(0), PStr(<<"c", "1">>)}
BuildRefs == {PStr(<<"a">>), PStr(<<>>)}
BuildObjIds == {PStr(<<"7">>), PStr(<<"6", "f">>)}
BuildDatas == {Data1, DataMixedKeys, PDict(<<>>)}
\* the data argument of ok: absent, empty, or a payload
OkDatas == {PNone, PDict(<<>>), Data1}
BuildMessages == {PStr(<<"b", "o", "o", "m">>)}
\* the error_code argument of error: absent, empty, or a code
ErrorCodes == {PNone, PStr(<<>>), PStr(<<"E", "1">>)}

Build(name, args, ret) ==
    /\ call' = Applied(name, args, "none", ret)
    /\ UNCHANGED <<batchVars, config, callerVars, sendVars, sig>>

Call_create(conv_id, ref, data) ==
    Build("create", <<conv_id, ref, data>>, create(conv_id, ref, data))
Call_modify_ref(conv_id, ref, data) ==
    Build("modify_ref", <<conv_id, ref, data>>, modify_ref(conv_id, ref, data))
Call_modify_id(conv_id, obj_id, data) ==
    Build("modify_id", <<conv_id, obj_id, data>>, modify_id(conv_id, obj_id, data))
Call_get(conv_id, ref) ==
    Build("get", <<conv_id, ref>>, get(conv_id, ref))
Call_get_by_id(conv_id, obj_id) ==
    Build("get_by_id", <<conv_id, obj_id>>, get_by_id(conv_id, obj_id))
Call_ok(conv_id, ref, data) ==
    Build("ok", <<conv_id, ref, data>>, ok(conv_id, ref, data))
Call_error(conv_id, ref, error_message, error_code) ==
    Build("error", <<conv_id, ref, error_message, error_code>>,
          error(conv_id, ref, error_message, error_code))

BuildInit == SigInit

BuildNext ==
    \/ \E c \in BuildConvIds, r \in BuildRefs, d \in BuildDatas : Call_create(c, r, d)
    \/ \E c \in BuildConvIds, r \in BuildRefs, d \in BuildDatas : Call_modify_ref(c, r, d)
    \/ \E c \in BuildConvIds, o \in BuildObjIds, d \in BuildDatas : Call_modify_id(c, o, d)
    \/ \E c \in BuildConvIds, r \in BuildRefs : Call_get(c, r)
    \/ \E c \in BuildConvIds, o \in BuildObjIds : Call_get_by_id(c, o)
    \/ \E c \in BuildConvIds, r \in BuildRefs, d \in OkDatas : Call_ok(c, r, d)
    \/ \E c \in BuildConvIds, r \in BuildRefs, m \in BuildMessages, e \in ErrorCodes :
          Call_error(c, r, m, e)

BuildSpec == BuildInit /\ [][BuildNext]_vars

\* the number a string of decimal digits denotes
RECURSIVE DecimalValue(_)
DecimalValue(s) ==
    IF s = <<>> THEN 0
    ELSE 10 * DecimalValue(SubSeq(s, 1, Len(s) - 1)) + DigitVal[s[Len(s)]]

----------------------------------------------------------------------------
(* config.Config and the construction of the client. In this section the    *)
(* settings of a Config are Python values, so that a missing one (None) and *)
(* an empty one can be told apart; Configs above are the valid ones.        *)

DEFAULT_API_URL == PStr(ApiUrl)
DEFAULT_TIMEOUT == 30
DEFAULT_MAX_RETRIES == 3

\* a or b
PyOr(a, b) == IF Truthy(a) THEN a ELSE b

\* int(x) of an int or of a str: the exception of a str that is no numeral
PyInt(x) ==
    IF x.t = "int" THEN [exc |-> "none", ret |-> x.v]
    ELSE IF x.v /= <<>> /\ \A i \in 1..Len(x.v) : x.v[i] \in DigitSet
    THEN [exc |-> "none", ret |-> DecimalValue(x.v)]
    ELSE [exc |-> "ValueError", ret |-> 0]

\* the environment: each variable is a str, or PNone when it is not set
Environ(login, secret, url, timeout, max_retries) ==
    [COREZOID_API_LOGIN |-> login, COREZOID_API_SECRET |-> secret,
     COREZOID_API_URL |-> url, COREZOID_TIMEOUT |-> timeout,
     COREZOID_MAX_RETRIES |-> max_retries]

\* Config.__init__ (config.py:21-46): the Config, or the exception of int()
Config_init(api_login, api_secret, api_url, timeout, max_retries, env) ==
    LET t == PyInt(PyOr(PyOr(timeout, env.COREZOID_TIMEOUT), PInt(DEFAULT_TIMEOUT)))
        r == PyInt(PyOr(PyOr(max_retries, env.COREZOID_MAX_RETRIES),
                        PInt(DEFAULT_MAX_RETRIES)))
    IN IF t.exc /= "none" \/ r.exc /= "none"
       THEN [exc |-> "ValueError", ret |-> PNone]
       ELSE [exc |-> "none",
             ret |-> [api_secret |-> PyOr(api_secret, env.COREZOID_API_SECRET),
                      api_login |-> PyOr(api_login, env.COREZOID_API_LOGIN),
                      api_url |-> PyOr(PyOr(api_url, env.COREZOID_API_URL),
                                       DEFAULT_API_URL),
                      timeout |-> t.ret,
                      max_retries |-> r.ret]]

\* validate that looks at the login only
ValidateLoginOnly(cfg) ==
    IF ~Truthy(cfg.api_login) THEN "ValueError" ELSE "none"

\* Config.validate: the exception it raises, "none" when it returns
validate(cfg) ==
    IF ~Truthy(cfg.api_login) THEN "ValueError"
    ELSE IF ~Truthy(cfg.api_secret) THEN "ValueError"
    ELSE "none"

\* HTTPClient.__init__: the session and its adapter
HTTPClient(timeout, max_retries) ==
    [timeout |-> timeout, max_retries |-> max_retries]

\* CorezoidClient.__init__: the client (its config and its http_client), or
\* the exception, with no client and so no session
CorezoidClient_init(api_login, api_secret, api_url, config_arg, env) ==
    LET made == IF config_arg /= PNone
                THEN [exc |-> "none", ret |-> config_arg]
                ELSE Config_init(api_login, api_secret, api_url, PNone, PNone, env)
    IN IF made.exc /= "none" THEN [exc |-> made.exc, ret |-> PNone]
       ELSE IF validate(made.ret) /= "none"
       THEN [exc |-> validate(made.ret), ret |-> PNone]
       ELSE [exc |-> "none",
             ret |-> [config |-> made.ret,
                      http_client |-> HTTPClient(made.ret.timeout,
                                                 made.ret.max_retries)]]

\* arguments and environments of the model
ArgLogins == {PNone, PStr(<<>>), PStr(ApiLogin)}
ArgSecrets == {PNone, PStr(<<>>), PStr(ApiSecret)}
ArgUrls == {PNone, PStr(<<"h", "t", "t", "p", ":", "/", "/", "u">>)}
ArgTimeouts == {PNone, PInt(0), PInt(5)}
ArgRetries == {PNone, PInt(0), PInt(MaxRetries + 1)}
Environs ==
    {Environ(l, s, PNone, t, r) :
        l \in {PNone, PStr(<<"E", "L">>)}, s \in {PNone, PStr(<<"E", "S">>)},
        t \in {PNone, PStr(<<"7">>)}, r \in {PNone, PStr(<<"0">>), PStr(<<"x">>)}}
    \cup {Environ(PStr(<<>>), PNone, PStr(<<"h", "t", "t", "p", ":", "/", "/", "e">>), PNone, PNone)}

\* Config objects handed to the client: made by Config with no environment
ConfigObjects ==
    {Config_init(l, s, PNone, PNone, PNone,
                 Environ(PNone, PNone, PNone, PNone, PNone)).ret :
        l \in ArgLogins, s \in ArgSecrets}

\* the calls of the model: the caller has chosen the arguments and the
\* environment, and the call has not run yet (exc is "pending")
ConfigCalls ==
    {Applied("Config", <<l, s, u, t, r, env>>, "pending", PNone) :
        l \in ArgLogins, s \in ArgSecrets, u \in ArgUrls, t \in ArgTimeouts,
        r \in ArgRetries, env \in Environs}
ClientCalls ==
    {Applied("CorezoidClient", <<l, s, u, c, env>>, "pending", PNone) :
        l \in ArgLogins, s \in ArgSecrets, u \in ArgUrls,
        c \in ConfigObjects \cup {PNone}, env \in Environs}

Call_Config ==
    /\ call.name = "Config"
    /\ call.exc = "pending"
    /\ LET a == call.args
           r == Config_init(a[1], a[2], a[3], a[4], a[5], a[6])
       IN call' = Applied("Config", a, r.exc, r.ret)
    /\ UNCHANGED <<batchVars, config, callerVars, sendVars, sig>>

Call_CorezoidClient ==
    /\ call.name = "CorezoidClient"
    /\ call.exc = "pending"
    /\ LET a == call.args
           r == CorezoidClient_init(a[1], a[2], a[3], a[4], a[5])
       IN call' = Applied("CorezoidClient", a, r.exc, r.ret)
    /\ UNCHANGED <<batchVars, config, callerVars, sendVars, sig>>

ConfInit ==
    /\ operations = <<>>
    /\ max_batch_size = MaxCap
    /\ constructed = MaxCap
    /\ addCalls = 0
    /\ config \in {c \in Configs : c.max_retries = 0}
    /\ held = NoHeld
    /\ threads = NoThreads
    /\ pc = "idle"
    /\ call \in ConfigCalls \cup ClientCalls
    /\ wire = NoWire
    /\ attempts = 0
    /\ resp = NoResp
    /\ sig = NoSig

ConfNext ==
    \/ Call_Config
    \/ Call_CorezoidClient

ConfSpec == ConfInit /\ [][ConfNext]_vars

(***************************************************************************)
(* Serialisation of request envelopes: to_json applied to the envelope     *)
(* {"ops": operations}, then from_json applied to the text it returned.    *)
(***************************************************************************)

\* the request envelope of _prepare_content (client.py:301)
Envelope(ops) == PDict(<<Item(PStr(<<"o", "p", "s">>), PList(ops))>>)

JsonCalls == {Applied("to_json", <<Envelope(ops)>>, "pending", PNone) : ops \in OpLists}

\* utils.to_json(envelope)
Call_to_json ==
    /\ call.name = "to_json" /\ call.exc = "pending"
    /\ call' = Applied("to_json", call.args, "none", PStr(to_json(call.args[1])))
    /\ UNCHANGED <<batchVars, config, callerVars, sendVars, sig>>

\* utils.from_json(text), text being what to_json returned
Call_from_json ==
    /\ call.name = "to_json" /\ call.exc = "none"
    /\ LET text == call.ret.v IN
       call' = IF Loads(text).ok
               THEN Applied("from_json", <<call.ret>>, "none", from_json(text))
               ELSE Applied("from_json", <<call.ret>>, "JSONDecodeError", PNone)
    /\ UNCHANGED <<batchVars, config, callerVars, sendVars, sig>>

JsonInit ==
    /\ operations = <<>>
    /\ max_batch_size = MaxCap
    /\ constructed = MaxCap
    /\ addCalls = 0
    /\ config \in {c \in Configs : c.max_retries = 0}
    /\ held = NoHeld
    /\ threads = NoThreads
    /\ pc = "idle"
    /\ call \in JsonCalls
    /\ wire = NoWire
    /\ attempts = 0
    /\ resp = NoResp
    /\ sig = NoSig

JsonNext ==
    \/ Call_to_json
    \/ Call_from_json

JsonSpec == JsonInit /\ [][JsonNext]_vars

(***************************************************************************)
(* The specification of the convenience helpers of the client: each builds *)
(* one operation and hands it to send; the transport then answers.         *)
(***************************************************************************)

\* CorezoidClient.upload_schema
Call_upload_schema(folder_id, schema, async_mode, now) ==
    Sender("upload_schema", <<upload_schema_operation(folder_id, schema, async_mode)>>, now)

\* CorezoidClient.create_task: the reference is generated from the reading
\* refNow of time.time() when none is given; send reads the clock again
Call_create_task(conv_id, data, ref, refNow, hex8, now) ==
    LET used == IF ref = PNone THEN GeneratedRef(refNow, hex8) ELSE ref
    IN Sender("create_task", <<create(conv_id, used, data)>>, now)

\* CorezoidClient.modify_task
Call_modify_task(conv_id, ref, data) ==
    \E now \in Times : Sender("modify_task", <<modify_ref(conv_id, ref, data)>>, now)

\* CorezoidClient.get_task
Call_get_task(conv_id, ref) ==
    \E now \in Times : Sender("get_task", <<get(conv_id, ref)>>, now)

HelperInit ==
    /\ operations = <<>>
    /\ max_batch_size = MaxCap
    /\ constructed = MaxCap
    /\ addCalls = 0
    /\ config \in Configs
    /\ held = NoHeld
    /\ threads = NoThreads
    /\ pc = "idle"
    /\ call = Returned("init", PNone, FALSE)
    /\ wire = NoWire
    /\ attempts = 0
    /\ resp = NoResp
    /\ sig = NoSig

HelperNext ==
    \/ \E f \in FolderIds, s \in Schemas, a \in BOOLEAN, now \in Times :
          Call_upload_schema(f, s, a, now)
    \/ \E c \in HelperConvIds, d \in Datas, r \in Refs \cup {PNone},
          refNow \in Times, hex8 \in UuidHex8, now \in Times :
          refNow <= now /\ Call_create_task(c, d, r, refNow, hex8, now)
    \/ \E c \in HelperConvIds, r \in Refs, d \in Datas : Call_modify_task(c, r, d)
    \/ \E c \in HelperConvIds, r \in Refs : Call_get_task(c, r)
    \/ \E o \in Outcomes : TransportAttempt(o)

HelperSpec == HelperInit /\ [][HelperNext]_vars

(***************************************************************************)
(* The specification of a caller that keeps the list get_operations        *)
(* returned while it goes on using the batch, and changes that list.       *)
(***************************************************************************)

SnapInit == Init

SnapNext ==
    \/ \E op \in RawOps : Call_add(op)
    \/ \E c \in ConvIds, r \in Refs : Call_add_get(c, r)
    \/ Call_clear
    \/ Call_size
    \/ Call_keep_operations
    \/ \E op \in RawOps : Caller_append(op)

SnapSpec == SnapInit /\ [][SnapNext]_vars

(***************************************************************************)
(* The specification of threads that call add on one batch with nothing    *)
(* to keep them apart: the capacity check of add (batch.py:38) and its     *)
(* append (batch.py:41) are two steps, and another thread can run between. *)
(***************************************************************************)

\* the capacity check of add with its comparison off by one
AddRejectsAboveCapacity(ops, max) == Len(ops) > max

\* the capacity check of add (batch.py:38)
add_rejects(ops, max) == Len(ops) >= max

\* thread t calls add(operation) and makes the capacity check
Thread_add_check(t, operation) ==
    /\ pc = "idle"
    /\ threads[t].pc = "idle"
    /\ IF add_rejects(operations, max_batch_size)
       THEN /\ threads' = [threads EXCEPT ![t] = [pc |-> "idle", operation |-> PNone, used |-> TRUE]]
            /\ call' = Outcome("add", "ValueError", PNone, <<>>, 0, <<>>,
                               is_full(operations, max_batch_size))
       ELSE /\ threads' = [threads EXCEPT ![t] = [pc |-> "checked", operation |-> operation, used |-> TRUE]]
            /\ call' = call
    /\ addCalls' = CountAdd(addCalls, max_batch_size)
    /\ UNCHANGED <<operations, max_batch_size, constructed, config, sendVars, sig, held>>

\* thread t, past the check, appends its operation and returns
Thread_add_append(t) ==
    /\ threads[t].pc = "checked"
    /\ operations' = Append(operations, threads[t].operation)
    /\ threads' = [threads EXCEPT ![t] = [pc |-> "idle", operation |-> PNone, used |-> TRUE]]
    /\ call' = Outcome("add", "none", PNone, <<>>, 0, <<>>,
                       is_full(operations, max_batch_size))
    /\ held' = IF held.alias THEN [held EXCEPT !.ops = operations'] ELSE held
    /\ UNCHANGED <<max_batch_size, constructed, addCalls, config, sendVars, sig>>

ThreadOps == RawOps \cup {get(c, r) : c \in ConvIds, r \in Refs}

ThreadInit == Init

ThreadNext ==
    \/ \E t \in Threads, op \in ThreadOps : Thread_add_check(t, op)
    \/ \E t \in Threads : Thread_add_append(t)

ThreadSpec == ThreadInit /\ [][ThreadNext]_vars

(***************************************************************************)
(* The specification of a client that sends lists of its own next to a     *)
(* batch: the lists are longer than any capacity of a batch.               *)
(***************************************************************************)

LongInit == Init

LongNext ==
    \/ \E op \in RawOps : Call_add(op)
    \/ Call_clear
    \/ \E ops \in LongLists \cup SendLists, now \in Times : Call_send(ops, now)
    \/ \E now \in Times : Call_send_batch(now)
    \/ \E o \in Outcomes : TransportAttempt(o)

LongSpec == LongInit /\ [][LongNext]_vars

----------------------------------------------------------------------------
(* The claims *)

AdderNames ==
    {"add", "add_create", "add_modify_ref", "add_modify_id", "add_get",
     "add_get_by_id"}
SendNames == {"send", "send_batch"}
Is2xx(status) == 200 <= status /\ status < 300

\* the k-th add call since construction or the last clear is accepted when
\* k <= max_batch_size and raises ValueError when k = max_batch_size + 1
AddCountExact ==
    call.name \in AdderNames =>
        /\ addCalls <= max_batch_size => call.exc = "none"
        /\ addCalls = max_batch_size + 1 => call.exc = "ValueError"

\* C1 as stated: for every capacity N a batch accepts exactly N consecutive add
\* calls and raises ValueError on call N+1, and after clear() on a full batch
\* the next add call is accepted.
C1_AsStated ==
    /\ []AddCountExact
    /\ [][(call.name = "clear" /\ call.full /\ call'.name \in AdderNames)
            => call'.exc = "none"]_vars

\* C1 amended: for every capacity N >= 0 a batch accepts exactly N consecutive
\* add calls and raises ValueError on call N+1; after clear() on a full batch
\* the next add call is accepted when N >= 1, and raises ValueError when N = 0.
C1_ExactlyNThenReopened ==
    /\ []AddCountExact
    /\ [][(call.name = "clear" /\ call.full /\ call'.name \in AdderNames)
            => (call'.exc = "none" <=> max_batch_size >= 1)]_vars

\* a batch of the largest capacity has rejected the add call after its last
\* accepted one
C1_Witness ==
    /\ call.name \in AdderNames
    /\ call.exc = "ValueError"
    /\ max_batch_size = MaxCap
    /\ max_batch_size >= 1
    /\ addCalls = max_batch_size + 1

C3_EmptyIsRejectedBeforePost ==
    (call.name \in SendNames /\ call.ops = <<>>) =>
        /\ call.exc = "ValidationError"
        /\ pc = "idle"
        /\ call.now = 0
        /\ wire = NoWire
        /\ attempts = 0
        /\ resp = NoResp

\* send was called with the empty list
C3_Witness ==
    /\ call.name = "send"
    /\ call.ops = <<>>
    /\ call.exc = "ValidationError"

\* C4 as stated: the body handed to the session is the same string as the
\* content the signature was computed over.
C4_BodyIsSignedContent ==
    pc = "posting" => wire.body = wire.signed

\* C5 as stated: when the exchange completes with a status outside 2xx, send
\* fails with APIError.
C5_StatusErrorIsAPIError ==
    (call.name \in SendNames /\ pc = "idle" /\ resp.kind = "http"
        /\ ~Is2xx(resp.status))
    => call.exc = "APIError"

\* C6: when the exchange completes with a 2xx status and a body json.loads
\* rejects, send ends there with an APIError that carries the body text (and so
\* not with ConnectionError).
C6_MalformedBodyIsAPIError ==
    (resp.kind = "http" /\ Is2xx(resp.status) /\ resp.text \in BadBodies) =>
        /\ pc = "idle"
        /\ call.exc = "APIError"
        /\ call.err = resp.text

\* a 200 response with an HTML body has ended a send
C6_Witness ==
    /\ call.name \in SendNames
    /\ resp = Http(200, BodyHtml)
    /\ call.exc = "APIError"

C8_Attempts ==
    /\ attempts <= 1 + config.max_retries
    /\ (pc = "posting" /\ attempts > 0) => resp.kind = "connect_fail"
    /\ resp.kind \in {"http", "read_fail"} => pc = "idle"
    /\ (pc = "idle" /\ resp.kind \in {"connect_fail", "read_fail"}) =>
          call.exc = "ConnectionError"
    /\ (pc = "idle" /\ resp.kind = "connect_fail") =>
          attempts = 1 + config.max_retries
    /\ (pc = "idle" /\ call.name \in SendNames) =>
          call.exc \in {"none", "ValidationError", "ConnectionError", "APIError"}

\* C8: one send makes at most 1 + max_retries POST attempts, a failed connection
\* is retried up to max_retries times and then raised as ConnectionError, a
\* completed exchange is not retried, and every send ends.
C8_BoundedRetriesAndTermination ==
    /\ []C8_Attempts
    /\ (pc = "posting") ~> (pc = "idle")

\* every retry was used and send raised ConnectionError
C8_Witness ==
    /\ call.name \in SendNames
    /\ pc = "idle"
    /\ call.exc = "ConnectionError"
    /\ resp.kind = "connect_fail"
    /\ config.max_retries >= 1
    /\ attempts = 1 + config.max_retries

\* C9: the request send hands to the transport carries exactly the four headers,
\* with the login of the configuration, the timestamp T of the clock reading of
\* this call, and the signature of (api_secret, T, content) for the content of
\* the operations of this call.
C9_AuthHeaders ==
    pc = "posting" =>
        LET T == current_timestamp(call.now) IN
        /\ DOMAIN wire.headers =
             {"Content-Type", "X-API-Login", "X-API-Signature", "X-API-Timestamp"}
        /\ wire.headers["Content-Type"] = <<"a", "p", "p", "l", "i", "c", "a", "t", "i", "o", "n", "/", "j", "s", "o", "n">>
        /\ wire.headers["X-API-Login"] = config.api_login
        /\ wire.headers["X-API-Timestamp"] = T
        /\ wire.signed = prepare_content(call.ops)
        /\ wire.headers["X-API-Signature"] =
             generate_signature(config.api_secret, T, wire.signed)
        /\ wire.url = config.api_url

\* a batch of two operations is being sent at clock reading 10.0 s
C9_Witness ==
    /\ pc = "posting"
    /\ call.name = "send_batch"
    /\ Len(call.ops) = 2
    /\ wire.headers["X-API-Timestamp"] = <<"1", "0">>

\* C10 as stated: verify_signature returns true exactly when the string is the
\* signature generate_signature gives for the arguments and returns false for
\* every other string; generate_signature gives 64 lowercase hexadecimal
\* characters.
C10_VerifyAcceptsExactlyTheSignature ==
    /\ sig.fn = "verify" =>
          /\ sig.exc = "none"
          /\ sig.ret <=> (sig.signature =
                generate_signature(sig.api_secret, sig.timestamp, sig.content))
    /\ sig.fn = "generate" =>
          /\ Len(sig.digest) = DigestLen
          /\ \A i \in 1..Len(sig.digest) :
                \E j \in 1..Len(HexDigits) : sig.digest[i] = HexDigits[j]

\* the fields of a response body as the claims read them
HasField(d, key) == \E i \in 1..Len(d.v) : d.v[i].k = PStr(key)
FieldOf(d, key) == CHOOSE i \in 1..Len(d.v) : d.v[i].k = PStr(key)
OpsOf(d) == IF HasField(d, <<"o", "p", "s">>) THEN d.v[FieldOf(d, <<"o", "p", "s">>)].v.v ELSE <<>>
RefMatches(d, ref) ==
    {i \in 1..Len(OpsOf(d)) :
        /\ HasField(OpsOf(d)[i], <<"r", "e", "f">>)
        /\ OpsOf(d)[i].v[FieldOf(OpsOf(d)[i], <<"r", "e", "f">>)].v = ref}
ProcIsOk(d) ==
    /\ HasField(d, <<"r", "e", "q", "u", "e", "s", "t", "_", "p", "r", "o", "c">>)
    /\ d.v[FieldOf(d, <<"r", "e", "q", "u", "e", "s", "t", "_", "p", "r", "o", "c">>)].v = PStr(<<"o", "k">>)

C12_SuccessIffOk ==
    call.name = "is_success" =>
        /\ call.exc = "none"
        /\ call.ret = PBool(ProcIsOk(call.args[1]))

\* a response without request_proc was asked and answered false
C12_Witness ==
    /\ call.name = "is_success"
    /\ ~HasField(call.args[1], <<"r", "e", "q", "u", "e", "s", "t", "_", "p", "r", "o", "c">>)
    /\ call.ret = PBool(FALSE)

\* C13 as stated: get_error() returns a string exactly when the response is
\* not successful, and None exactly when it is.
C13_ErrorIffNotSuccess ==
    call.name = "get_error" =>
        /\ call.exc = "none"
        /\ call.ret.t \in {"str", "none"}
        /\ call.ret.t = "str" <=> ~ProcIsOk(call.args[1])

\* s is task-<seconds>-<8 hexadecimal characters> for the clock reading now
IsGeneratedRef(s, now) ==
    LET secs == IntToStr(now \div 2)
        n == Len(secs)
    IN /\ Len(s) = 5 + n + 1 + 8
       /\ SubSeq(s, 1, 5) = <<"t", "a", "s", "k", "-">>
       /\ SubSeq(s, 6, 5 + n) = secs
       /\ s[6 + n] = "-"
       /\ \A i \in (7 + n)..Len(s) : \E j \in 1..Len(HexDigits) : s[i] = HexDigits[j]

\* what C14 says of the state after a successful add_create: the last operation
\* of the batch is a create whose ref is the value returned, which is the ref
\* given (call.now = 0: the clock was not read) or a generated one
C14_ReturnedRef ==
    (call.name = "add_create" /\ call.exc = "none") =>
        /\ Len(operations) >= 1
        /\ LET last == operations[Len(operations)] IN
             /\ DictGet(last, <<"t", "y", "p", "e">>) = PStr(<<"c", "r", "e", "a", "t", "e">>)
             /\ DictHas(last, <<"r", "e", "f">>)
             /\ DictGet(last, <<"r", "e", "f">>) = call.ret
        /\ call.ret.t = "str"
        /\ call.now = 0 => call.ret \in Refs
        /\ call.now /= 0 => IsGeneratedRef(call.ret.v, call.now)

\* C14: a successful add_create appends exactly one operation, a create, and
\* returns the ref that operation carries: the ref given, or else a generated
\* one of the form task-<unix seconds>-<8 hex chars>.
C14_AddCreateReturnsItsRef ==
    /\ []C14_ReturnedRef
    /\ [][(call'.name = "add_create" /\ call'.exc = "none") =>
            /\ Len(operations') = Len(operations) + 1
            /\ SubSeq(operations', 1, Len(operations)) = operations]_vars

\* a second operation was added by add_create with a generated ref
C14_Witness ==
    /\ call.name = "add_create"
    /\ call.exc = "none"
    /\ call.now = 20
    /\ Len(operations) = 2
    /\ call.ret = PStr(<<"t", "a", "s", "k", "-", "1", "0", "-", "0", "f", "3", "a", "9", "c", "1", "e">>)

\* the operations of the batch are those added since construction or the last
\* clear, in the order of the add calls: a successful adder appends one
\* operation, clear and create_batch leave none, nothing else touches them
BatchKeepsInsertionOrder ==
    /\ (call'.name \in AdderNames /\ call'.exc = "none") =>
          /\ Len(operations') = Len(operations) + 1
          /\ SubSeq(operations', 1, Len(operations)) = operations
          /\ operations'[Len(operations')] \in AllOps
    /\ (call'.name \in AdderNames /\ call'.exc /= "none") =>
          operations' = operations
    /\ call'.name \in {"clear", "create_batch"} => operations' = <<>>
    /\ call'.name \notin AdderNames \cup {"clear", "create_batch"} =>
          operations' = operations

\* send_batch on a non-empty batch starts one send of the operations of the
\* batch, and nothing starts another while it runs
SendBatchSendsOnce ==
    /\ (pc = "idle" /\ call'.name = "send_batch" /\ operations /= <<>>) =>
          /\ pc' = "posting"
          /\ attempts' = 0
          /\ call'.ops = operations
          /\ wire'.signed = prepare_content(operations)
    /\ pc = "posting" => (wire' = wire /\ call'.ops = call.ops)

\* C15: for a non-empty batch, send_batch calls send once with exactly the
\* operations added since construction or the last clear, in insertion order
\* (what get_operations returns), none dropped, duplicated or reordered.
C15_SendBatchSendsTheBatch ==
    /\ []((call.name = "send_batch" /\ call.exc /= "ValidationError") =>
            (call.ops = get_operations(operations) /\ operations /= <<>>))
    /\ [][BatchKeepsInsertionOrder /\ SendBatchSendsOnce]_vars

\* a batch of two different operations is being sent
C15_Witness ==
    /\ call.name = "send_batch"
    /\ pc = "posting"
    /\ Len(call.ops) = 2
    /\ call.ops[1] /= call.ops[2]

\* the keys of a dict, and whether no key occurs twice
KeysOf(d) == {d.v[i].k.v : i \in 1..Len(d.v)}
KeysDistinct(d) == \A i, j \in 1..Len(d.v) : d.v[i].k = d.v[j].k => i = j
ValueOf(d, key) == d.v[FieldOf(d, key)].v

\* s is the string form of the conveyor id c: c itself when c is a str, the
\* decimal numeral of c (no leading zero) when c is an int
IsConvIdString(s, c) ==
    /\ s.t = "str"
    /\ c.t = "str" => s = c
    /\ c.t = "int" =>
          /\ s.v /= <<>>
          /\ \A i \in 1..Len(s.v) : s.v[i] \in DigitSet
          /\ Len(s.v) > 1 => s.v[1] /= "0"
          /\ DecimalValue(s.v) = c.v

\* what every request operation carries: type, obj "task" and the conveyor id
\* as a string
RequestShape(op, type, conv_id, keys) ==
    /\ op.t = "dict"
    /\ KeysDistinct(op)
    /\ KeysOf(op) = {<<"t", "y", "p", "e">>, <<"c", "o", "n", "v", "_", "i", "d">>, <<"o", "b", "j">>} \cup keys
    /\ ValueOf(op, <<"t", "y", "p", "e">>) = PStr(type)
    /\ ValueOf(op, <<"o", "b", "j">>) = PStr(<<"t", "a", "s", "k">>)
    /\ IsConvIdString(ValueOf(op, <<"c", "o", "n", "v", "_", "i", "d">>), conv_id)

\* C16: every operation of the RequestOperation builders has the string form of
\* conv_id and obj "task"; create has ref and data and no obj_id; modify has
\* data and exactly one of ref and obj_id; get has exactly one of ref and obj_id
\* and no data; ref, obj_id and data are those given.
C16_OperationShape ==
    LET a == call.args
        op == call.ret
    IN /\ call.name = "create" =>
            /\ RequestShape(op, <<"c", "r", "e", "a", "t", "e">>, a[1], {<<"r", "e", "f">>, <<"d", "a", "t", "a">>})
            /\ ValueOf(op, <<"r", "e", "f">>) = a[2]
            /\ ValueOf(op, <<"d", "a", "t", "a">>) = a[3]
       /\ call.name = "modify_ref" =>
            /\ RequestShape(op, <<"m", "o", "d", "i", "f", "y">>, a[1], {<<"r", "e", "f">>, <<"d", "a", "t", "a">>})
            /\ ValueOf(op, <<"r", "e", "f">>) = a[2]
            /\ ValueOf(op, <<"d", "a", "t", "a">>) = a[3]
       /\ call.name = "modify_id" =>
            /\ RequestShape(op, <<"m", "o", "d", "i", "f", "y">>, a[1], {<<"o", "b", "j", "_", "i", "d">>, <<"d", "a", "t", "a">>})
            /\ ValueOf(op, <<"o", "b", "j", "_", "i", "d">>) = a[2]
            /\ ValueOf(op, <<"d", "a", "t", "a">>) = a[3]
       /\ call.name = "get" =>
            /\ RequestShape(op, <<"g", "e", "t">>, a[1], {<<"r", "e", "f">>})
            /\ ValueOf(op, <<"r", "e", "f">>) = a[2]
       /\ call.name = "get_by_id" =>
            /\ RequestShape(op, <<"g", "e", "t">>, a[1], {<<"o", "b", "j", "_", "i", "d">>})
            /\ ValueOf(op, <<"o", "b", "j", "_", "i", "d">>) = a[2]

\* create was given the conveyor id 42 as an int and stored it as "42"
C16_Witness ==
    /\ call.name = "create"
    /\ call.args[1] = PInt(42)
    /\ ValueOf(call.ret, <<"c", "o", "n", "v", "_", "i", "d">>) = PStr(<<"4", "2">>)

\* C19: ok without data returns a dict without the key data, error without
\* error_code a dict without the key error_code, and no dict of either builder
\* has data or error_code with a None or empty value.
C19_OptionalFieldsAbsent ==
    call.name \in {"ok", "error"} =>
        LET a == call.args
            op == call.ret
        IN /\ op.t = "dict" /\ KeysDistinct(op)
           /\ (call.name = "ok" /\ a[3] = PNone) => <<"d", "a", "t", "a">> \notin KeysOf(op)
           /\ (call.name = "error" /\ a[4] = PNone) =>
                 <<"e", "r", "r", "o", "r", "_", "c", "o", "d", "e">> \notin KeysOf(op)
           /\ \A key \in {<<"d", "a", "t", "a">>, <<"e", "r", "r", "o", "r", "_", "c", "o", "d", "e">>} \cap KeysOf(op) :
                 /\ ValueOf(op, key) /= PNone
                 /\ ValueOf(op, key).v /= <<>>
           /\ call.name = "ok" =>
                 /\ {<<"o", "b", "j">>, <<"p", "r", "o", "c">>, <<"c", "o", "n", "v", "_", "i", "d">>, <<"r", "e", "f">>} \subseteq KeysOf(op)
                 /\ KeysOf(op) \subseteq {<<"o", "b", "j">>, <<"p", "r", "o", "c">>, <<"c", "o", "n", "v", "_", "i", "d">>, <<"r", "e", "f">>, <<"d", "a", "t", "a">>}
                 /\ <<"d", "a", "t", "a">> \in KeysOf(op) => ValueOf(op, <<"d", "a", "t", "a">>) = a[3]
           /\ call.name = "error" =>
                 /\ {<<"o", "b", "j">>, <<"p", "r", "o", "c">>, <<"c", "o", "n", "v", "_", "i", "d">>, <<"r", "e", "f">>, <<"e", "r", "r", "o", "r", "_", "m", "e", "s", "s", "a", "g", "e">>}
                       \subseteq KeysOf(op)
                 /\ KeysOf(op) \subseteq {<<"o", "b", "j">>, <<"p", "r", "o", "c">>, <<"c", "o", "n", "v", "_", "i", "d">>, <<"r", "e", "f">>,
                                          <<"e", "r", "r", "o", "r", "_", "m", "e", "s", "s", "a", "g", "e">>, <<"e", "r", "r", "o", "r", "_", "c", "o", "d", "e">>}
                 /\ <<"e", "r", "r", "o", "r", "_", "c", "o", "d", "e">> \in KeysOf(op) =>
                       ValueOf(op, <<"e", "r", "r", "o", "r", "_", "c", "o", "d", "e">>) = a[4]

\* ok was called without data and returned its four fixed keys
C19_Witness ==
    /\ call.name = "ok"
    /\ call.args[3] = PNone
    /\ KeysOf(call.ret) = {<<"o", "b", "j">>, <<"p", "r", "o", "c">>, <<"c", "o", "n", "v", "_", "i", "d">>, <<"r", "e", "f">>}

\* a setting that is missing (None) or empty
IsEmpty(x) == x = PNone \/ x = PStr(<<>>)

\* the credential a client is constructed with: that of the Config object when
\* one is supplied, else the argument, else the environment variable
ResolvedCredential(supplied, arg, envvar) ==
    IF supplied /= PNone THEN supplied
    ELSE IF ~IsEmpty(arg) THEN arg
    ELSE envvar

\* C17: constructing a client whose resolved api_login or api_secret is missing
\* or empty raises ValueError and leaves no client and no HTTP session, whether
\* the credentials come from arguments, the environment or a Config object;
\* every client that is constructed has both credentials non-empty.
C17_NoClientWithoutCredentials ==
    (call.name = "CorezoidClient" /\ call.exc /= "pending") =>
        LET a == call.args
            login == ResolvedCredential(IF a[4] = PNone THEN PNone ELSE a[4].api_login,
                                        a[1], a[5].COREZOID_API_LOGIN)
            secret == ResolvedCredential(IF a[4] = PNone THEN PNone ELSE a[4].api_secret,
                                         a[2], a[5].COREZOID_API_SECRET)
        IN /\ (IsEmpty(login) \/ IsEmpty(secret)) =>
                 (call.exc = "ValueError" /\ call.ret = PNone)
           /\ call.exc \in {"none", "ValueError"}
           /\ call.exc = "none" =>
                 /\ call.ret.config.api_login = login /\ ~IsEmpty(login)
                 /\ call.ret.config.api_secret = secret /\ ~IsEmpty(secret)
                 /\ call.ret.http_client =
                       [timeout |-> call.ret.config.timeout,
                        max_retries |-> call.ret.config.max_retries]

\* a Config object with a login and no secret was supplied and refused
C17_Witness ==
    /\ call.name = "CorezoidClient"
    /\ call.exc = "ValueError"
    /\ call.args[4] /= PNone
    /\ call.args[4].api_login = PStr(ApiLogin)
    /\ call.args[4].api_secret = PNone
    /\ call.ret = PNone

\* the value stored for a setting under the precedence explicit argument, then
\* environment variable, then default
ByPrecedence(arg, envvar, default) ==
    IF arg /= PNone THEN arg
    ELSE IF envvar /= PNone THEN envvar
    ELSE default

\* C18 as stated: each setting of a Config is the explicit argument when one is
\* passed (timeout=0 and max_retries=0 included), else the environment
\* variable, else the default.
C18_ExplicitOverEnvOverDefault ==
    (call.name = "Config" /\ call.exc = "none") =>
        LET a == call.args
            env == a[6]
            cfg == call.ret
        IN /\ cfg.api_login = ByPrecedence(a[1], env.COREZOID_API_LOGIN, PNone)
           /\ cfg.api_secret = ByPrecedence(a[2], env.COREZOID_API_SECRET, PNone)
           /\ cfg.api_url = ByPrecedence(a[3], env.COREZOID_API_URL, DEFAULT_API_URL)
           /\ PInt(cfg.timeout) =
                 PInt(PyInt(ByPrecedence(a[4], env.COREZOID_TIMEOUT,
                                         PInt(DEFAULT_TIMEOUT))).ret)
           /\ PInt(cfg.max_retries) =
                 PInt(PyInt(ByPrecedence(a[5], env.COREZOID_MAX_RETRIES,
                                         PInt(DEFAULT_MAX_RETRIES))).ret)

\* the number of backslashes that end at index i of s
RECURSIVE BackslashesUpTo(_, _)
BackslashesUpTo(s, i) ==
    IF i >= 1 /\ s[i] = "\\" THEN 1 + BackslashesUpTo(s, i - 1) ELSE 0

\* the indices of the quotes of a JSON text that open or close a string literal
UnescapedQuotes(s) ==
    {i \in 1..Len(s) : s[i] = "\"" /\ BackslashesUpTo(s, i - 1) % 2 = 0}

\* the indices of a JSON text that stand outside its string literals
OutsideStrings(s) ==
    LET quotes == UnescapedQuotes(s)
    IN {i \in 1..Len(s) : i \notin quotes /\ Cardinality({j \in quotes : j < i}) % 2 = 0}

JsonWhitespace == {" ", "\t", "\n", "\r"}

NoWhitespaceBetweenTokens(text) ==
    \A i \in OutsideStrings(text) : text[i] \notin JsonWhitespace

\* the keys of a dict in their order, as JSON writes them
KeySeq(d) == [i \in 1..Len(d.v) |-> JsonKey(d.v[i].k)]

\* the operation dicts of the decoded text have the keys of the operation dicts
\* of the envelope, in the same order
KeepsKeyOrder(envelope, text) ==
    LET ops == envelope.v[1].v.v
        decoded == from_json(text)
    IN /\ KeySeq(decoded) = KeySeq(envelope)
       /\ Len(decoded.v[1].v.v) = Len(ops)
       /\ \A i \in 1..Len(ops) : KeySeq(decoded.v[1].v.v[i]) = KeySeq(ops[i])

\* C20 as stated: for every request envelope x built from operation dicts,
\* to_json(x) has no whitespace between tokens and keeps the keys in
\* construction order, and to_json(from_json(to_json(x))) = to_json(x).
C20_CanonicalSerialization ==
    /\ (call.name = "to_json" /\ call.exc = "none") =>
          /\ NoWhitespaceBetweenTokens(call.ret.v)
          /\ KeepsKeyOrder(call.args[1], call.ret.v)
    /\ call.name = "from_json" =>
          /\ call.exc = "none"
          /\ to_json(call.ret) = call.args[1].v

HelperNames == {"upload_schema", "create_task", "modify_task", "get_task"}

\* the contract of an operation by its type: a create has conv_id, obj "task",
\* ref and data; a modify has data and exactly one of ref and obj_id; a get has
\* exactly one of ref and obj_id and no data
SatisfiesShapeContract(op) ==
    /\ op.t = "dict"
    /\ KeysDistinct(op)
    /\ {K_type, K_conv_id, K_obj} \subseteq KeysOf(op)
    /\ ValueOf(op, K_obj) = PStr(<<"t", "a", "s", "k">>)
    /\ ValueOf(op, K_conv_id).t = "str"
    /\ LET type == ValueOf(op, K_type).v
           rest == KeysOf(op) \ {K_type, K_conv_id, K_obj}
       IN CASE type = <<"c", "r", "e", "a", "t", "e">> -> rest = {K_ref, K_data}
            [] type = <<"m", "o", "d", "i", "f", "y">> -> rest \in {{K_ref, K_data}, {K_obj_id, K_data}}
            [] type = <<"g", "e", "t">> -> rest \in {{K_ref}, {K_obj_id}}
            [] OTHER -> FALSE

\* C21 as stated: each convenience helper calls send with a list of exactly one
\* operation that satisfies the operation-shape contract; every operation of
\* type create a helper sends carries a ref and a data payload.
C21_HelpersSendOneShapedOperation ==
    call.name \in HelperNames =>
        /\ Len(call.ops) = 1
        /\ SatisfiesShapeContract(call.ops[1])
        /\ ValueOf(call.ops[1], K_type) = PStr(<<"c", "r", "e", "a", "t", "e">>) =>
              {K_ref, K_data} \subseteq KeysOf(call.ops[1])

\* after send_batch began, returned or raised, the batch holds the operations
\* that were handed to send
BatchIsWhatWasSent ==
    (call.name = "send_batch" /\ call.exc /= "ValidationError") =>
        call.ops = operations

\* C22: send_batch never changes the batch: while it runs and after it returned
\* a response or raised, the batch holds the same operations in the same order
\* with the same capacity; the operations of a batch are dropped only by
\* clear(); a second send_batch without clear sends the same operations.
C22_SendBatchLeavesBatch ==
    /\ []BatchIsWhatWasSent
    /\ [][call'.name = "send_batch" =>
            /\ operations' = operations
            /\ max_batch_size' = max_batch_size]_vars
    /\ [][(Len(operations') < Len(operations) /\ call'.name /= "create_batch")
            => call'.name = "clear"]_vars
    /\ [][(call.name = "send_batch" /\ call'.name = "send_batch" /\ pc = "idle"
           /\ call.ops /= <<>>) => call'.ops = call.ops]_vars

\* send_batch on a full batch of the largest capacity raised APIError, and the
\* batch is still full
C22_Witness ==
    /\ call.name = "send_batch"
    /\ call.exc = "APIError"
    /\ Len(operations) = MaxCap
    /\ call.ops = operations
    /\ pc = "idle"

\* C23: when the batch is full, add and every typed adder raise ValueError and
\* leave the stored operations, their order and max_batch_size exactly as they
\* were; nothing is returned, so add_create returns no reference.
C23_RejectedAddLeavesBatch ==
    [][(call'.name \in AdderNames /\ is_full(operations, max_batch_size)) =>
          /\ call'.exc = "ValueError"
          /\ call'.ret = PNone
          /\ call'.full
          /\ operations' = operations
          /\ max_batch_size' = max_batch_size]_vars

\* add_create, asked to generate a reference, was rejected by a full batch of
\* the largest capacity
C23_Witness ==
    /\ call.name = "add_create"
    /\ call.exc = "ValueError"
    /\ call.now /= 0
    /\ call.ret = PNone
    /\ call.full
    /\ Len(operations) = MaxCap

\* C24 as stated: get_operations changes nothing in the batch; a sequence it
\* returned earlier is not changed by later add or clear calls; changes the
\* caller makes to the returned sequence change neither the contents nor the
\* size of the batch, which therefore stays within max_batch_size.
C24_GetOperationsIsSnapshot ==
    /\ [](Len(operations) <= max_batch_size)
    /\ [][call'.name = "get_operations" =>
            (operations' = operations /\ max_batch_size' = max_batch_size)]_vars
    /\ [][(held.taken /\ call'.name \in AdderNames \cup {"clear"}) =>
            held'.ops = held.ops]_vars
    /\ [][call'.name = "list.append" => operations' = operations]_vars

\* C25: the capacity check and the append of add are separate steps: with two
\* threads adding to one batch both can pass the check at size
\* max_batch_size - 1, and the batch then holds more than max_batch_size
\* operations (one more for each further thread, and no more than that); while
\* only one thread has called add the batch stays within max_batch_size.
C25_AddIsNotAtomic ==
    /\ Len(operations) <= max_batch_size + Cardinality(Threads) - 1
    /\ (\E t \in Threads : ~threads[t].used) => Len(operations) <= max_batch_size
    /\ Len(operations) > max_batch_size =>
          /\ max_batch_size >= 1
          /\ \A t \in Threads : threads[t].used

\* two threads have added to a batch of the largest capacity, and it holds one
\* operation more than max_batch_size
C25_Witness ==
    /\ max_batch_size = MaxCap
    /\ Len(operations) = max_batch_size + 1
    /\ \A t \in Threads : threads[t].pc = "idle" /\ threads[t].used
    /\ call.name = "add" /\ call.exc = "none" /\ call.full

\* the pairs of a timestamp and a content of the model whose concatenation is
\* that of timestamp and content
SameConcatenation(timestamp, content) ==
    {p \in SigTimestamps \X SigContents : p[1] \o p[2] = timestamp \o content}

\* C26: generate_signature depends on timestamp and content only through their
\* concatenation: two pairs with the same concatenation get the same signature
\* under the same secret, and verify_signature accepts the signature made for
\* one of them when it is given the other.
C26_BoundaryNotAuthenticated ==
    /\ sig.fn = "generate" =>
          \A p \in SameConcatenation(sig.timestamp, sig.content) :
             generate_signature(sig.api_secret, p[1], p[2]) = sig.digest
    /\ sig.fn = "verify" =>
          \A p \in SameConcatenation(sig.timestamp, sig.content) :
             sig.signature = generate_signature(sig.api_secret, p[1], p[2]) =>
                (sig.exc = "none" /\ sig.ret)

\* the signature made for timestamp "1" and content "0{}" was accepted for
\* timestamp "10" and content "{}"
C26_Witness ==
    /\ sig.fn = "verify"
    /\ sig.timestamp = <<"1", "0">>
    /\ sig.content = <<"{", "}">>
    /\ sig.signature = generate_signature(sig.api_secret, <<"1">>, <<"0", "{", "}">>)
    /\ sig.exc = "none"
    /\ sig.ret

\* a send of a non-empty list puts the whole list into one envelope and starts
\* one POST of it
SendSendsWholeList ==
    (pc = "idle" /\ call'.name = "send" /\ call'.ops /= <<>>) =>
        /\ pc' = "posting"
        /\ attempts' = 0
        /\ wire'.signed = prepare_content(call'.ops)
        /\ Len(OpsOf(from_json(wire'.body))) = Len(call'.ops)

\* C27: send puts no bound on the number of operations: every non-empty list,
\* however long, goes whole into one envelope and one POST, whatever the
\* max_batch_size of a batch; what send_batch sends of a batch changed by its
\* own methods has at most max_batch_size operations.
C27_SendIsUnbounded ==
    /\ []((call.name = "send_batch" /\ call.exc /= "ValidationError") =>
            Len(call.ops) <= max_batch_size)
    /\ []((call.name = "send" /\ call.ops /= <<>>) => call.exc /= "ValidationError")
    /\ [][SendSendsWholeList]_vars

\* a list longer than the largest capacity was sent in one POST and answered
C27_Witness ==
    /\ call.name = "send"
    /\ Len(call.ops) > MaxCap
    /\ Len(call.ops) > max_batch_size
    /\ Len(OpsOf(from_json(wire.body))) = Len(call.ops)
    /\ attempts = 1
    /\ call.exc = "none"

\* a response body that echoes the operations of a request as its results
EchoOf(ops) ==
    PDict(<<Item(PStr(<<"r", "e", "q", "u", "e", "s", "t", "_", "p", "r", "o", "c">>), PStr(<<"o", "k">>)), Item(PStr(<<"o", "p", "s">>), PList(ops))>>)

\* the first position of ops whose operation has the ref of position i
FirstPositionOfRef(ops, i) ==
    CHOOSE j \in 1..i :
        /\ HasField(ops[j], K_ref) /\ ValueOf(ops[j], K_ref) = ValueOf(ops[i], K_ref)
        /\ \A k \in 1..(j - 1) :
              ~(HasField(ops[k], K_ref) /\ ValueOf(ops[k], K_ref) = ValueOf(ops[i], K_ref))

\* C28: the batch never checks that a ref is new: every adder succeeds and
\* appends whenever the batch is not full, whatever refs are stored, so a batch
\* can hold several operations with one ref; on a response that echoes the
\* operations get_operation_result(ref) returns the first of them only.
C28_DuplicateRefsAccepted ==
    /\ [][(call'.name \in AdderNames /\ ~is_full(operations, max_batch_size)) =>
            /\ call'.exc = "none"
            /\ Len(operations') = Len(operations) + 1
            /\ SubSeq(operations', 1, Len(operations)) = operations]_vars
    /\ [](\A i \in 1..Len(operations) :
            HasField(operations[i], K_ref) =>
               get_operation_result(CorezoidResponse(EchoOf(operations)),
                                    ValueOf(operations[i], K_ref))
                  = operations[FirstPositionOfRef(operations, i)])

\* add_get was accepted by a batch that held an operation with the same ref:
\* the batch holds two different operations with one ref
C28_Witness ==
    /\ call.name = "add_get"
    /\ call.exc = "none"
    /\ Len(operations) = 2
    /\ operations[1] /= operations[2]
    /\ HasField(operations[1], K_ref)
    /\ ValueOf(operations[1], K_ref) = ValueOf(operations[2], K_ref)
    /\ get_operation_result(CorezoidResponse(EchoOf(operations)),
                            ValueOf(operations[2], K_ref)) = operations[1]

\* C29: for every string argument get_operation_result returns None or a
\* result that has a ref field equal to the argument: a result without a ref
\* is never returned and is reported as not found, without an exception;
\* get_operation_results returns every result, with or without a ref.
C29_LookupIsByRefOnly ==
    /\ (call.name = "get_operation_result" /\ call.args[2].t = "str") =>
          /\ call.exc = "none"
          /\ call.ret /= PNone =>
                /\ HasField(call.ret, K_ref)
                /\ ValueOf(call.ret, K_ref) = call.args[2]
          /\ RefMatches(call.args[1], call.args[2]) = {} => call.ret = PNone
    /\ call.name = "get_operation_results" =>
          /\ call.exc = "none"
          /\ call.ret.v = OpsOf(call.args[1])

\* the response has a result without a ref, the empty string was asked for and
\* nothing was found
C29_Witness ==
    /\ call.name = "get_operation_result"
    /\ call.args[2] = PStr(<<>>)
    /\ \E i \in 1..Len(OpsOf(call.args[1])) : ~HasField(OpsOf(call.args[1])[i], K_ref)
    /\ call.exc = "none"
    /\ call.ret = PNone

\* an optional argument that was supplied with a value that is not empty
NonEmpty(x) == x /= PNone /\ x.v /= <<>>

\* C30: ok and error treat an optional value that is supplied but empty like
\* one that is omitted: ok(conv_id, ref, {}) is the dict ok(conv_id, ref)
\* returns and error(conv_id, ref, msg, "") the dict error(conv_id, ref, msg)
\* returns; the key data / error_code is present exactly when the argument is
\* not empty.
C30_EmptyIsOmitted ==
    /\ call.name = "ok" =>
          LET a == call.args IN
          /\ ~NonEmpty(a[3]) => call.ret = ok(a[1], a[2], PNone)
          /\ HasField(call.ret, K_data) <=> NonEmpty(a[3])
          /\ ~HasField(ok(a[1], a[2], PNone), K_data)
    /\ call.name = "error" =>
          LET a == call.args IN
          /\ ~NonEmpty(a[4]) => call.ret = error(a[1], a[2], a[3], PNone)
          /\ HasField(call.ret, K_error_code) <=> NonEmpty(a[4])
          /\ ~HasField(error(a[1], a[2], a[3], PNone), K_error_code)

\* error was given the error_code "" and returned a dict without error_code
C30_Witness ==
    /\ call.name = "error"
    /\ call.args[4] = PStr(<<>>)
    /\ ~HasField(call.ret, K_error_code)
    /\ HasField(call.ret, K_error_message)

=============================================================================
